---- MODULE Spec2Model ----
(***************************************************************************)
(* A model of the nimble-selector engine: the rule-table store             *)
(* (DataProvider), the content index (CompendiumBrowser), the resolvers,   *)
(* the grant operation (ItemGranter) and the selection sessions            *)
(* (ClassFeatureSelector, SpellSelector, EquipmentSelector).               *)
(*                                                                         *)
(* Conventions.  A JavaScript string is a sequence of one-character        *)
(* strings, so that toLowerCase, trim and replace are computed.  A JSON    *)
(* object is a function whose domain is its key set.  A level key k >= 1   *)
(* is the key "k"; the key NonNumericKey stands for a key that Number()    *)
(* turns into NaN.  Object.entries lists integer-like keys in ascending    *)
(* order and the other keys after them.                                    *)
(***************************************************************************)
EXTENDS Integers, Sequences, FiniteSets, TLC

\* ------------------------------------------------------------------ bounds
\* Levels of the rule tables and of the catalog range over 1..MaxLevel.
MaxLevel == 3
\* At most MaxLoadCalls calls of load() and MaxInitCalls calls of initialize().
MaxLoadCalls == 2
MaxInitCalls == 2
\* At most MaxSessions selector windows are opened; the actor holds at most
\* MaxItems owned records.
MaxSessions == 2
MaxItems == 2
\* At most MaxConfirms confirm events reach one window.
MaxConfirms == 2
MaxSettledSessions == 1
\* Direct calls of grantItemsByUuid leave the actor with at most
\* MaxGrantedItems owned records.
MaxGrantedItems == 3
\* SelectorPanel windows opened, and createItem timers pending at a time
MaxPanels == 2
MaxTimers == 1

\* ------------------------------------------------------------ identifiers
NoSubclass == "null"          \* subclassIdentifier = null
KnownClass == "mage"          \* a class the rule tables may hold
AbsentClass == "bard"         \* a class no rule table holds
KnownSub == "spellblade"      \* a subclass the rule tables may hold
AbsentSub == "trickster"      \* a subclass no rule table holds
ClassIds == {KnownClass, AbsentClass}
SubIds == {NoSubclass, KnownSub, AbsentSub}
Levels == 1..MaxLevel
NonNumericKey == -1
NullTable == [null |-> TRUE]  \* a table field before load() assigned it
EmptyObject == [k \in {} |-> 0]

\* --------------------------------------------------------------- strings
Range(s) == {s[i] : i \in 1..Len(s)}

LowerChar(c) ==
    CASE c = "A" -> "a"
      [] c = "B" -> "b"
      [] c = "F" -> "f"
      [] c = "M" -> "m"
      [] c = "P" -> "p"
      [] c = "R" -> "r"
      [] c = "S" -> "s"
      [] c = "W" -> "w"
      [] OTHER -> c

UpperChar(c) ==
    CASE c = "a" -> "A"
      [] c = "b" -> "B"
      [] c = "f" -> "F"
      [] c = "m" -> "M"
      [] c = "p" -> "P"
      [] c = "r" -> "R"
      [] c = "s" -> "S"
      [] c = "w" -> "W"
      [] OTHER -> c

toLowerCase(s) == [i \in 1..Len(s) |-> LowerChar(s[i])]

RECURSIVE trimStart(_)
trimStart(s) == IF Len(s) > 0 /\ Head(s) = " " THEN trimStart(Tail(s)) ELSE s

RECURSIVE trimEnd(_)
trimEnd(s) ==
    IF Len(s) > 0 /\ s[Len(s)] = " " THEN trimEnd(SubSeq(s, 1, Len(s) - 1)) ELSE s

trim(s) == trimEnd(trimStart(s))

\* str.replace(ch, ''): the first occurrence of ch is removed.
RECURSIVE replaceFirst(_, _)
replaceFirst(s, ch) ==
    IF s = <<>> THEN <<>>
    ELSE IF Head(s) = ch THEN Tail(s)
    ELSE <<Head(s)>> \o replaceFirst(Tail(s), ch)

\* Set.add on a Set kept in insertion order.
SetAdd(seq, x) == IF x \in Range(seq) THEN seq ELSE Append(seq, x)

\* Object.entries(obj) key order: integer-like keys ascending, then the rest.
RECURSIVE AscendingSeq(_)
AscendingSeq(S) ==
    IF S = {} THEN <<>>
    ELSE LET m == CHOOSE x \in S : \A y \in S : x <= y
         IN <<m>> \o AscendingSeq(S \ {m})

EntryKeys(obj) ==
    AscendingSeq(DOMAIN obj \ {NonNumericKey})
        \o (IF NonNumericKey \in DOMAIN obj THEN <<NonNumericKey>> ELSE <<>>)

\* Number(lvl) is NaN; every comparison with NaN is false.
NumberIsNaN(lvl) == lvl = NonNumericKey
NumberGT(lvl, level) == ~NumberIsNaN(lvl) /\ lvl > level
NumberLE(lvl, level) == ~NumberIsNaN(lvl) /\ lvl <= level

\* ------------------------------------------------------------- variables
VARIABLES
    dpVariant,               \* which DataProvider of the source is running
    files,                   \* the JSON resource files the server holds
    classFeatures,           \* DataProvider.#classFeatures
    spellSchools,            \* DataProvider.#spellSchools
    spellTiers,              \* DataProvider.#spellTiers
    equipmentProficiencies,  \* DataProvider.#equipmentProficiencies
    loaded,                  \* DataProvider.#loaded
    loadPending,             \* load() calls suspended at their await
    loadCallCount,           \* load() calls made so far
    fetchCount,              \* fetch() calls made so far
    lastLoad,                \* how the last load() to resume ended
    packs,                   \* game.packs: the content catalog
    featureIndex,            \* CompendiumBrowser.#featureIndex
    featureByClassIndex,     \* CompendiumBrowser.#featureByClassIndex
    spellIndex,              \* CompendiumBrowser.#spellIndex
    itemIndex,               \* CompendiumBrowser.#itemIndex
    initialized,             \* CompendiumBrowser.#initialized
    initCalls,               \* initialize() calls suspended at their await
    initCallCount,           \* initialize() calls made so far
    actorItems,              \* actor.items: the owned records of the actor
    session,                 \* the selector window opened last
    sessionCount,            \* the selector windows opened so far
    settings,                \* game.settings of the module (client scope)
    orchestrator,            \* module.mjs: orchestrator is not null
    readyHook,               \* where the handler of Hooks.once('ready') is
    actor,                   \* the actor: its type and its class item's level
    panels,                  \* the SelectorPanel windows opened so far
    timers,                  \* setTimeout callbacks of the createItem hook not yet run
    q                        \* the last query made and its result

ruleTables == <<classFeatures, spellSchools, spellTiers, equipmentProficiencies>>
loadVars == <<loaded, loadPending, loadCallCount, fetchCount, lastLoad>>
dpVars == <<dpVariant, files, ruleTables, loadVars>>
indices == <<featureIndex, featureByClassIndex, spellIndex, itemIndex>>
cbVars == <<packs, indices, initialized, initCalls, initCallCount>>
uiVars == <<actorItems, session, sessionCount>>
hookVars == <<orchestrator, readyHook, actor, panels, timers>>
vars == <<dpVars, cbVars, uiVars, settings, hookVars, q>>

\* game.settings.register(MODULE_ID, ..., {default: true}) of both settings
DefaultSettings == [autoOpenOnLevelUp |-> TRUE, autoSelectFeatures |-> TRUE]

\* A client whose ready hook has not run: no orchestrator, no panel, and a
\* character with a class item at level 1.
HooksNotRun ==
    /\ orchestrator = FALSE
    /\ readyHook = "notRun"
    /\ actor = [type |-> "character", classLevel |-> 1]
    /\ panels = <<>>
    /\ timers = 0

NoQuery == [op |-> "none"]
NoLoad == [result |-> "none"]

\* ----------------------------------------------------- DataProvider queries
HasClass(table, classIdentifier) ==
    table # NullTable /\ classIdentifier \in DOMAIN table

Truthy(subclassIdentifier) == subclassIdentifier # NoSubclass

\* A variant that reads only the entry of exactly the given level.
findMaxTierAtLevelExact(tierMap, level) ==
    IF level \in DOMAIN tierMap /\ tierMap[level] > 0 THEN tierMap[level] ELSE 0

\* #findMaxTierAtLevel: the loop over Object.entries(tierMap).
RECURSIVE findMaxTierLoop(_, _, _, _)
findMaxTierLoop(tierMap, keys, level, maxTier) ==
    IF keys = <<>> THEN maxTier
    ELSE LET lvl == Head(keys)
             next == IF NumberLE(lvl, level)
                     THEN (IF tierMap[lvl] > maxTier THEN tierMap[lvl] ELSE maxTier)
                     ELSE maxTier
         IN findMaxTierLoop(tierMap, Tail(keys), level, next)

findMaxTierAtLevel(tierMap, level) ==
    findMaxTierLoop(tierMap, EntryKeys(tierMap), level, 0)

HasSubTiers(classIdentifier, subclassIdentifier) ==
    /\ Truthy(subclassIdentifier)
    /\ HasClass(spellTiers, classIdentifier)
    /\ "subclasses" \in DOMAIN spellTiers[classIdentifier]
    /\ subclassIdentifier \in DOMAIN spellTiers[classIdentifier].subclasses

HasBaseTiers(classIdentifier) ==
    /\ HasClass(spellTiers, classIdentifier)
    /\ "base" \in DOMAIN spellTiers[classIdentifier]

\* A variant in which the base table wins over the subclass table.
getMaxSpellTierBaseFirst(classIdentifier, level, subclassIdentifier) ==
    IF HasBaseTiers(classIdentifier)
    THEN findMaxTierAtLevel(spellTiers[classIdentifier].base, level)
    ELSE IF HasSubTiers(classIdentifier, subclassIdentifier)
    THEN findMaxTierAtLevel(
             spellTiers[classIdentifier].subclasses[subclassIdentifier], level)
    ELSE -1

getMaxSpellTier(classIdentifier, level, subclassIdentifier) ==
    IF HasSubTiers(classIdentifier, subclassIdentifier)
    THEN findMaxTierAtLevel(
             spellTiers[classIdentifier].subclasses[subclassIdentifier], level)
    ELSE IF ~HasBaseTiers(classIdentifier) THEN -1
    ELSE findMaxTierAtLevel(spellTiers[classIdentifier].base, level)

\* The tags added as they are listed, marker included.
RECURSIVE addSchoolsKeepingMarker(_, _)
addSchoolsKeepingMarker(granted, schools) ==
    IF schools = <<>> THEN granted
    ELSE addSchoolsKeepingMarker(SetAdd(granted, Head(schools)), Tail(schools))

\* The loop over one array of school tags: granted.add(school.replace('+', '')).
RECURSIVE addSchools(_, _)
addSchools(granted, schools) ==
    IF schools = <<>> THEN granted
    ELSE addSchools(SetAdd(granted, replaceFirst(Head(schools), "+")), Tail(schools))

\* A variant that grants only the schools listed at exactly the given level.
baseSchoolsLoopExact(base, keys, level, granted) ==
    IF level \in DOMAIN base /\ base[level].kind = "list"
    THEN addSchools(granted, base[level].items)
    ELSE granted

\* The loop over Object.entries(classData.base).  A value is
\* [kind |-> "list", items |-> <<school, ...>>] (an array) or something else.
RECURSIVE baseSchoolsLoop(_, _, _, _)
baseSchoolsLoop(base, keys, level, granted) ==
    IF keys = <<>> THEN granted
    ELSE LET lvl == Head(keys)
             next == IF NumberIsNaN(lvl) \/ NumberGT(lvl, level) THEN granted
                     ELSE IF base[lvl].kind # "list" THEN granted
                     ELSE addSchools(granted, base[lvl].items)
         IN baseSchoolsLoop(base, Tail(keys), level, next)

\* The loop over Object.entries(classData.choices): no NaN test here.
RECURSIVE topChoicesLoop(_, _, _, _)
topChoicesLoop(choiceMap, keys, level, choices) ==
    IF keys = <<>> THEN choices
    ELSE LET lvl == Head(keys)
             next == IF NumberGT(lvl, level) THEN choices
                     ELSE Append(choices, choiceMap[lvl])
         IN topChoicesLoop(choiceMap, Tail(keys), level, next)

\* The loop over Object.entries(subData).  A value is a list, or
\* [kind |-> "choices", choices |-> c] (an object with a choices member).
RECURSIVE subSchoolsLoop(_, _, _, _)
subSchoolsLoop(subData, keys, level, acc) ==
    IF keys = <<>> THEN acc
    ELSE LET lvl == Head(keys)
             value == subData[lvl]
             next == IF NumberIsNaN(lvl) \/ NumberGT(lvl, level) THEN acc
                     ELSE IF value.kind = "list"
                          THEN [acc EXCEPT !.granted = addSchools(@, value.items)]
                     ELSE IF value.kind = "choices"
                          THEN [acc EXCEPT !.choices = Append(@, value.choices)]
                     ELSE acc
         IN subSchoolsLoop(subData, Tail(keys), level, next)

getSpellSchools(classIdentifier, level, subclassIdentifier) ==
    IF ~HasClass(spellSchools, classIdentifier)
    THEN [granted |-> <<>>, choices |-> <<>>]
    ELSE LET classData == spellSchools[classIdentifier]
             g1 == IF "base" \in DOMAIN classData
                   THEN baseSchoolsLoop(classData.base, EntryKeys(classData.base),
                                        level, <<>>)
                   ELSE <<>>
             c1 == IF "choices" \in DOMAIN classData
                   THEN topChoicesLoop(classData.choices,
                                       EntryKeys(classData.choices), level, <<>>)
                   ELSE <<>>
             acc == [granted |-> g1, choices |-> c1]
         IN IF /\ Truthy(subclassIdentifier)
               /\ "subclasses" \in DOMAIN classData
               /\ subclassIdentifier \in DOMAIN classData.subclasses
            THEN LET subData == classData.subclasses[subclassIdentifier]
                 IN subSchoolsLoop(subData, EntryKeys(subData), level, acc)
            ELSE acc

\* The names of the subclass's table before those of the base table.
getFeaturesForLevelSubFirst(classIdentifier, level, subclassIdentifier) ==
    IF ~HasClass(classFeatures, classIdentifier) THEN <<>>
    ELSE LET classData == classFeatures[classIdentifier]
             baseFeatures ==
                 IF "base" \in DOMAIN classData /\ level \in DOMAIN classData.base
                 THEN classData.base[level] ELSE <<>>
             subFeatures ==
                 IF /\ Truthy(subclassIdentifier)
                    /\ "subclasses" \in DOMAIN classData
                    /\ subclassIdentifier \in DOMAIN classData.subclasses
                    /\ level \in DOMAIN classData.subclasses[subclassIdentifier]
                 THEN classData.subclasses[subclassIdentifier][level] ELSE <<>>
         IN subFeatures \o baseFeatures

\* getFeaturesForLevel: base names at String(level), then the subclass's.
getFeaturesForLevel(classIdentifier, level, subclassIdentifier) ==
    IF ~HasClass(classFeatures, classIdentifier) THEN <<>>
    ELSE LET classData == classFeatures[classIdentifier]
             baseFeatures ==
                 IF "base" \in DOMAIN classData /\ level \in DOMAIN classData.base
                 THEN classData.base[level] ELSE <<>>
             subFeatures ==
                 IF /\ Truthy(subclassIdentifier)
                    /\ "subclasses" \in DOMAIN classData
                    /\ subclassIdentifier \in DOMAIN classData.subclasses
                    /\ level \in DOMAIN classData.subclasses[subclassIdentifier]
                 THEN classData.subclasses[subclassIdentifier][level] ELSE <<>>
         IN baseFeatures \o subFeatures

\* A range that stops one level short of toLevel.
getFeaturesForRangeExclusive(classIdentifier, fromLevel, toLevel, subclassIdentifier) ==
    [i \in 1..Len(SelectSeq([k \in 1..(IF toLevel > fromLevel THEN toLevel - fromLevel ELSE 0)
                                |-> fromLevel + k - 1],
                            LAMBDA l : Len(getFeaturesForLevel(classIdentifier, l,
                                                               subclassIdentifier)) > 0))
        |-> LET ls == SelectSeq([k \in 1..(IF toLevel > fromLevel THEN toLevel - fromLevel ELSE 0)
                                    |-> fromLevel + k - 1],
                                LAMBDA l : Len(getFeaturesForLevel(classIdentifier, l,
                                                                   subclassIdentifier)) > 0)
            IN [level |-> ls[i],
                features |-> getFeaturesForLevel(classIdentifier, ls[i], subclassIdentifier)]]

\* getFeaturesForRange: a Map in insertion order, as a sequence of
\* [level, features] entries.
RECURSIVE getFeaturesForRangeLoop(_, _, _, _, _)
getFeaturesForRangeLoop(classIdentifier, level, toLevel, subclassIdentifier, result) ==
    IF level > toLevel THEN result
    ELSE LET features == getFeaturesForLevel(classIdentifier, level, subclassIdentifier)
             next == IF Len(features) > 0
                     THEN Append(result, [level |-> level, features |-> features])
                     ELSE result
         IN getFeaturesForRangeLoop(classIdentifier, level + 1, toLevel,
                                    subclassIdentifier, next)

getFeaturesForRange(classIdentifier, fromLevel, toLevel, subclassIdentifier) ==
    getFeaturesForRangeLoop(classIdentifier, fromLevel, toLevel, subclassIdentifier, <<>>)

getEquipmentProficiencies(classIdentifier) ==
    IF HasClass(equipmentProficiencies, classIdentifier)
    THEN equipmentProficiencies[classIdentifier]
    ELSE [armor |-> <<>>, weapons |-> <<>>]

LevelCap == 20

\* hasCasting evaluated at the first level instead of the level cap.
hasCastingAtFirstLevel(classIdentifier, subclassIdentifier) ==
    LET schools == getSpellSchools(classIdentifier, 1, subclassIdentifier)
    IN Len(schools.granted) > 0 \/ Len(schools.choices) > 0

\* SpellSchoolResolver.hasCasting: getSpellSchools evaluated at level 20.
hasCasting(classIdentifier, subclassIdentifier) ==
    LET schools == getSpellSchools(classIdentifier, LevelCap, subclassIdentifier)
    IN Len(schools.granted) > 0 \/ Len(schools.choices) > 0


\* ------------------------------------------------- rule-table input sets
\* The JSON resource files are data: the specifications below draw them
\* from these sets.
TierValues == {0, 1, 2}
MapsOver(keys, values) == UNION {[S -> values] : S \in SUBSET keys}
TierMaps == MapsOver(Levels, TierValues)
SubTierMaps == MapsOver({1, MaxLevel}, TierValues)
TierClassData ==
    {[base |-> b, subclasses |-> [s \in {KnownSub} |-> m]] :
        b \in TierMaps, m \in SubTierMaps}
    \cup {[base |-> b] : b \in TierMaps}
    \cup {[subclasses |-> [s \in {KnownSub} |-> m]] : m \in SubTierMaps}
TierTables ==
    {[c \in {KnownClass} |-> d] : d \in TierClassData} \cup {EmptyObject}

\* School tags: "fire", "+ice", "+wind", "utility".
Fire == <<"f">>
Ice == <<"i">>
Wind == <<"w">>
PlusIce == <<"+", "i">>
PlusWind == <<"+", "w">>
List(items) == [kind |-> "list", items |-> items]
Choices(c) == [kind |-> "choices", choices |-> c]
NotAnArray == [kind |-> "other"]
ChoiceA == [count |-> 1, options |-> <<Fire, Ice>>]
ChoiceB == [count |-> 2, options |-> <<Wind>>]
BaseSchoolValues == {List(<<Fire>>), List(<<PlusIce, Fire>>), NotAnArray}
BaseSchoolMaps ==
    MapsOver(Levels, BaseSchoolValues)
    \cup {[k \in {1, NonNumericKey} |-> List(<<Wind>>)]}
ChoiceMaps ==
    {[k \in {1} |-> ChoiceA],
     [k \in {1, MaxLevel} |-> IF k = 1 THEN ChoiceA ELSE ChoiceB],
     [k \in {1, NonNumericKey} |-> IF k = 1 THEN ChoiceA ELSE ChoiceB]}
SubSchoolValues == {List(<<PlusWind>>), List(<<Fire>>), Choices(ChoiceB)}
SubSchoolMaps == MapsOver({1, MaxLevel}, SubSchoolValues)
SchoolClassData ==
    {[base |-> b, subclasses |-> [s \in {KnownSub} |-> m]] :
        b \in BaseSchoolMaps, m \in SubSchoolMaps}
    \cup {[base |-> b, choices |-> c] : b \in BaseSchoolMaps, c \in ChoiceMaps}
    \cup {[choices |-> c, subclasses |-> [s \in {KnownSub} |-> m]] :
            c \in ChoiceMaps, m \in SubSchoolMaps}
    \cup {[base |-> b] : b \in BaseSchoolMaps}
SchoolTables ==
    {[c \in {KnownClass} |-> d] : d \in SchoolClassData} \cup {EmptyObject}

\* ------------------------------------------------------------ the queries
\* A query returns its result and leaves every variable of the engine as it
\* is; q records the call.
Answer(op, args, result) ==
    /\ q' = [op |-> op, args |-> args, result |-> result]
    /\ UNCHANGED <<dpVars, cbVars, uiVars, settings, hookVars>>

QueryMaxSpellTier(classIdentifier, level, subclassIdentifier) ==
    Answer("getMaxSpellTier", <<classIdentifier, level, subclassIdentifier>>,
           getMaxSpellTier(classIdentifier, level, subclassIdentifier))

QuerySpellSchools(classIdentifier, level, subclassIdentifier) ==
    Answer("getSpellSchools", <<classIdentifier, level, subclassIdentifier>>,
           getSpellSchools(classIdentifier, level, subclassIdentifier))

\* ------------------------------------------------------- DataProvider.load
\* The source holds two DataProviders: one with three tables, whose
\* #fetchJSON catches what fetch() and response.json() throw, and one with
\* four tables, whose #fetchJSON has no try/catch.
FileNames ==
    IF dpVariant = "three"
    THEN {"spellSchools", "spellTiers", "equipmentProficiencies"}
    ELSE {"classFeatures", "spellSchools", "spellTiers", "equipmentProficiencies"}

\* How one fetch ends: an OK response with the file's JSON, a response that
\* is not OK, or a rejection (fetch() rejects or response.json() throws).
FetchOutcomes == {"ok", "notOk", "reject"}

\* #fetchJSON rejects: only without the try/catch.
fetchJSONRejects(outcome) == dpVariant = "four" /\ outcome = "reject"

\* What #fetchJSON returns when it returns.
fetchJSON(filename, outcome) ==
    IF outcome = "ok" THEN files[filename] ELSE EmptyObject

\* A guard that never lets load() return early.
loadNeverReturnsEarly == FALSE

\* if (this.#loaded) return;
loadReturnsEarly == loaded

\* load() up to its await: the early return, or one fetch per file.
LoadCall ==
    /\ loadCallCount < MaxLoadCalls
    /\ loadCallCount' = loadCallCount + 1
    /\ IF loadReturnsEarly
       THEN UNCHANGED <<loadPending, fetchCount>>
       ELSE /\ loadPending' = loadPending + 1
            /\ fetchCount' = fetchCount + Cardinality(FileNames)
    /\ UNCHANGED <<dpVariant, files, ruleTables, loaded, lastLoad, cbVars, uiVars, settings, hookVars, q>>

\* The fetches of one load() have settled and load() resumes: Promise.all
\* rejects when a #fetchJSON rejected, otherwise the tables are assigned.
LoadResume(outcomes) ==
    /\ loadPending > 0
    /\ loadPending' = loadPending - 1
    /\ IF \E f \in FileNames : fetchJSONRejects(outcomes[f])
       THEN /\ lastLoad' = [result |-> "rejected", outcomes |-> outcomes]
            /\ UNCHANGED <<ruleTables, loaded>>
       ELSE /\ lastLoad' = [result |-> "completed", outcomes |-> outcomes]
            /\ classFeatures' = IF "classFeatures" \in FileNames
                                THEN fetchJSON("classFeatures", outcomes["classFeatures"])
                                ELSE classFeatures
            /\ spellSchools' = fetchJSON("spellSchools", outcomes["spellSchools"])
            /\ spellTiers' = fetchJSON("spellTiers", outcomes["spellTiers"])
            /\ equipmentProficiencies' =
                   fetchJSON("equipmentProficiencies", outcomes["equipmentProficiencies"])
            /\ loaded' = TRUE
    /\ UNCHANGED <<dpVariant, files, loadCallCount, fetchCount, cbVars, uiVars, settings, hookVars, q>>

\* A DataProvider on which load() has not been called.
NotLoaded(variant, cf, ss, st, ep) ==
    /\ dpVariant = variant
    /\ files = [classFeatures |-> cf, spellSchools |-> ss, spellTiers |-> st,
                equipmentProficiencies |-> ep]
    /\ classFeatures = NullTable
    /\ spellSchools = NullTable
    /\ spellTiers = NullTable
    /\ equipmentProficiencies = NullTable
    /\ loaded = FALSE
    /\ loadPending = 0
    /\ loadCallCount = 0
    /\ fetchCount = 0
    /\ lastLoad = NoLoad

\* The state of a DataProvider whose one load() has completed with these tables.
LoadedWith(cf, ss, st, ep) ==
    /\ dpVariant = "four"
    /\ files = [classFeatures |-> cf, spellSchools |-> ss, spellTiers |-> st,
                equipmentProficiencies |-> ep]
    /\ classFeatures = cf
    /\ spellSchools = ss
    /\ spellTiers = st
    /\ equipmentProficiencies = ep
    /\ loaded = TRUE
    /\ loadPending = 0
    /\ loadCallCount = 1
    /\ fetchCount = Cardinality(FileNames)
    /\ lastLoad = [result |-> "completed", outcomes |-> [f \in FileNames |-> "ok"]]

\* ------------------------------------------------------ CompendiumBrowser
\* #normalizeString: lower case, trim, and the replace of its character
\* class, which holds the straight apostrophe only.
replaceApostrophes(s) == [i \in 1..Len(s) |-> IF s[i] = "'" THEN "'" ELSE s[i]]

normalizeString(str) == replaceApostrophes(trim(toLowerCase(str)))

\* The characters of the identifiers the model uses.
Chars(id) ==
    CASE id = "mage" -> <<"m", "a", "g", "e">>
      [] id = "bard" -> <<"b", "a", "r", "d">>
      [] id = "armor" -> <<"a", "r", "m", "o", "r">>
      [] id = "shield" -> <<"s", "h", "i", "e", "l", "d">>
      [] id = "weapon" -> <<"w", "e", "a", "p", "o", "n">>
      [] id = "consumable" -> <<"c", "o", "n", "s", "u", "m", "a", "b", "l", "e">>
      [] id = "misc" -> <<"m", "i", "s", "c">>
      [] id = "progression" ->
            <<"p", "r", "o", "g", "r", "e", "s", "s", "i", "o", "n">>
      [] id = "arsenal" ->
            <<"a", "r", "s", "e", "n", "a", "l">>
      [] id = "spellblade" ->
            <<"s", "p", "e", "l", "l", "b", "l", "a", "d", "e">>
      [] id = "trickster" ->
            <<"t", "r", "i", "c", "k", "s", "t", "e", "r">>
      [] OTHER -> <<>>

NoFolder == "null"            \* entry.folder / folder.folder = null
EmptyMap == [k \in {} |-> <<>>]

\* map.get(key).push(value), after map.set(key, []) for a new key.
MapPush(map, key, value) ==
    IF key \in DOMAIN map
    THEN [map EXCEPT ![key] = Append(@, value)]
    ELSE [k \in DOMAIN map \cup {key} |-> IF k = key THEN <<value>> ELSE map[k]]

\* map.set(uuid, value) on a Map kept in insertion order.
RECURSIVE MapSet(_, _)
MapSet(seq, value) ==
    IF seq = <<>> THEN <<value>>
    ELSE IF Head(seq).uuid = value.uuid THEN <<value>> \o Tail(seq)
    ELSE <<Head(seq)>> \o MapSet(Tail(seq), value)

\* #buildFolderClassMap: the walk from a folder up to its last reachable
\* ancestor (folders is a function from folder id to [name, folder]).
RECURSIVE folderAncestor(_, _)
folderAncestor(folders, id) ==
    IF folders[id].folder = NoFolder THEN id
    ELSE IF folders[id].folder \notin DOMAIN folders THEN id
    ELSE folderAncestor(folders, folders[id].folder)

\* #buildFolderClassMap: folder id -> normalised name of its root folder.
buildFolderClassMap(folders) ==
    LET roots == {id \in DOMAIN folders : folders[id].folder = NoFolder}
        mapped == {id \in DOMAIN folders :
                      /\ folderAncestor(folders, id) \in roots
                      /\ normalizeString(folders[folderAncestor(folders, id)].name) # <<>>}
    IN [id \in mapped |-> normalizeString(folders[folderAncestor(folders, id)].name)]

\* #buildFolderClassMap: the number of times the body of the while loop runs
\* for one folder.
RECURSIVE folderWalkSteps(_, _)
folderWalkSteps(folders, id) ==
    IF folders[id].folder = NoFolder THEN 0
    ELSE IF folders[id].folder \notin DOMAIN folders THEN 1
    ELSE 1 + folderWalkSteps(folders, folders[id].folder)

\* A featureData record that takes the class of the folder before the
\* entry's own.
featureDataOfFolderFirst(entry, folderClassMap) ==
    LET cls == IF entry.folder # NoFolder /\ entry.folder \in DOMAIN folderClassMap
               THEN folderClassMap[entry.folder]
               ELSE entry.class
        levels == IF Len(entry.gainedAtLevels) = 0
                  THEN entry.gainedAtLevel
                  ELSE entry.gainedAtLevels
    IN [uuid |-> entry.uuid, name |-> entry.name, img |-> entry.img,
        class |-> cls, normalizedClass |-> normalizeString(cls),
        group |-> entry.group, gainedAtLevels |-> levels,
        subclass |-> entry.subclass]

\* The featureData record #indexFeatures builds from one index entry.
featureDataOf(entry, folderClassMap) ==
    LET cls == IF entry.class # <<>> THEN entry.class
               ELSE IF entry.folder # NoFolder /\ entry.folder \in DOMAIN folderClassMap
               THEN folderClassMap[entry.folder]
               ELSE <<>>
        levels == IF Len(entry.gainedAtLevels) = 0
                  THEN entry.gainedAtLevel
                  ELSE entry.gainedAtLevels
    IN [uuid |-> entry.uuid, name |-> entry.name, img |-> entry.img,
        class |-> cls, normalizedClass |-> normalizeString(cls),
        group |-> entry.group, gainedAtLevels |-> levels,
        subclass |-> entry.subclass]

\* #indexFeatures: the loop over the index, pushing into both feature maps.
RECURSIVE indexFeaturesLoop(_, _, _)
indexFeaturesLoop(entries, folderClassMap, maps) ==
    IF entries = <<>> THEN maps
    ELSE LET featureData == featureDataOf(Head(entries), folderClassMap)
             next == [byName |-> MapPush(maps.byName,
                                         normalizeString(featureData.name), featureData),
                      byClass |-> MapPush(maps.byClass,
                                          featureData.normalizedClass, featureData)]
         IN indexFeaturesLoop(Tail(entries), folderClassMap, next)

\* #indexSpells: the loop over the documents.
RECURSIVE indexSpellsLoop(_, _)
indexSpellsLoop(documents, index) ==
    IF documents = <<>> THEN index
    ELSE LET doc == Head(documents)
             spell == [uuid |-> doc.uuid, name |-> doc.name,
                       normalizedName |-> normalizeString(doc.name),
                       school |-> doc.school,
                       normalizedSchool |-> normalizeString(doc.school),
                       tier |-> doc.tier,
                       isUtility |-> "utilitySpell" \in doc.selected]
         IN indexSpellsLoop(Tail(documents), MapSet(index, spell))

\* #indexItems: the loop over the index.
RECURSIVE indexItemsLoop(_, _)
indexItemsLoop(entries, index) ==
    IF entries = <<>> THEN index
    ELSE LET entry == Head(entries)
             item == [uuid |-> entry.uuid, name |-> entry.name,
                      objectType |-> entry.objectType,
                      normalizedType |-> normalizeString(entry.objectType)]
         IN indexItemsLoop(Tail(entries), MapSet(index, item))

\* The characters of the model in collation order (space and punctuation,
\* digits, letters).
Alphabet ==
    <<" ", "'", "(", ")", "+", "-", "2", "3", "a", "b", "c", "d", "e", "f", "g",
      "h", "i", "j", "k", "l", "m", "n", "o", "p", "q", "r", "s", "t", "u", "v",
      "w", "x", "y", "z">>

IsUpper(c) == LowerChar(c) # c
CharRank(c) == CHOOSE i \in 1..Len(Alphabet) : Alphabet[i] = LowerChar(c)

\* Lexicographic order of two strings by the rank of their letters.
RECURSIVE rankCompare(_, _)
rankCompare(a, b) ==
    IF a = <<>> /\ b = <<>> THEN 0
    ELSE IF a = <<>> THEN -1
    ELSE IF b = <<>> THEN 1
    ELSE IF CharRank(Head(a)) < CharRank(Head(b)) THEN -1
    ELSE IF CharRank(Head(a)) > CharRank(Head(b)) THEN 1
    ELSE rankCompare(Tail(a), Tail(b))

\* Strings of the same letters: lower case sorts before upper case.
RECURSIVE caseCompare(_, _)
caseCompare(a, b) ==
    IF a = <<>> \/ b = <<>> THEN 0
    ELSE IF ~IsUpper(Head(a)) /\ IsUpper(Head(b)) THEN -1
    ELSE IF IsUpper(Head(a)) /\ ~IsUpper(Head(b)) THEN 1
    ELSE caseCompare(Tail(a), Tail(b))

\* a.localeCompare(b): letters first, case as the tie-break.
localeCompare(a, b) ==
    IF rankCompare(a, b) # 0 THEN rankCompare(a, b) ELSE caseCompare(a, b)

\* The comparators of the two sorts: by tier then name (spells), by name
\* (items).
compare(order, a, b) ==
    IF order = "tierThenName" /\ a.tier # b.tier THEN a.tier - b.tier
    ELSE localeCompare(a.name, b.name)

\* Array.prototype.sort with a comparator (stable): insertion of x after
\* every element that does not come after it.
RECURSIVE sortedInsert(_, _, _)
sortedInsert(sorted, x, order) ==
    IF sorted = <<>> THEN <<x>>
    ELSE IF compare(order, Head(sorted), x) <= 0
    THEN <<Head(sorted)>> \o sortedInsert(Tail(sorted), x, order)
    ELSE <<x>> \o sorted

RECURSIVE sortBy(_, _)
sortBy(seq, order) ==
    IF seq = <<>> THEN <<>>
    ELSE sortedInsert(sortBy(SubSeq(seq, 1, Len(seq) - 1), order), seq[Len(seq)], order)

Digits == {"2", "3"}
Spaces == {" "}

\* The number of trailing characters of s that are in the set.
RECURSIVE trailing(_, _)
trailing(s, set) ==
    IF s # <<>> /\ s[Len(s)] \in set
    THEN 1 + trailing(SubSeq(s, 1, Len(s) - 1), set)
    ELSE 0

\* #stripNumericSuffix: str.replace(/\s*\(\d+\)$/, '').trim()
stripNumericSuffix(str) ==
    IF str # <<>> /\ str[Len(str)] = ")"
    THEN LET inner == SubSeq(str, 1, Len(str) - 1)
             digits == trailing(inner, Digits)
             before == SubSeq(inner, 1, Len(inner) - digits)
         IN IF digits > 0 /\ before # <<>> /\ before[Len(before)] = "("
            THEN LET rest == SubSeq(before, 1, Len(before) - 1)
                 IN trim(SubSeq(rest, 1, Len(rest) - trailing(rest, Spaces)))
            ELSE trim(str)
    ELSE trim(str)

NoUuid == "null"              \* match?.uuid ?? null
PlaceholderImg == "icons/svg/mystery-man.svg"

\* The first candidate, whatever its class is.
findMatchOfFirstCandidate(candidates, normalizedClass) ==
    IF Len(candidates) > 0 THEN <<candidates[1]>> ELSE <<>>

\* candidates.find(c => c._normalizedClass === normalizedClass), else the
\* first candidate; <<>> when there is no candidate.
findMatch(candidates, normalizedClass) ==
    LET hits == {i \in 1..Len(candidates) :
                    candidates[i].normalizedClass = normalizedClass}
    IN IF hits # {} THEN <<candidates[CHOOSE i \in hits : \A j \in hits : i <= j]>>
       ELSE IF Len(candidates) > 0 THEN <<candidates[1]>>
       ELSE <<>>

\* findFeaturesByName: the candidates of one name.
candidatesOf(name) ==
    LET key == normalizeString(name)
        baseKey == stripNumericSuffix(key)
    IN IF key \in DOMAIN featureIndex /\ Len(featureIndex[key]) > 0
       THEN featureIndex[key]
       ELSE IF baseKey # key /\ baseKey \in DOMAIN featureIndex
       THEN featureIndex[baseKey]
       ELSE <<>>

\* The records of the matched names only.
findFeaturesByNameMatchedOnly(featureNames, classIdentifier) ==
    LET found == [i \in 1..Len(featureNames) |->
                     findMatch(candidatesOf(featureNames[i]),
                               normalizeString(Chars(classIdentifier)))]
        hits == SelectSeq([i \in 1..Len(featureNames) |-> i],
                          LAMBDA i : found[i] # <<>>)
    IN [k \in 1..Len(hits) |->
           [uuid |-> found[hits[k]][1].uuid, name |-> featureNames[hits[k]],
            img |-> found[hits[k]][1].img, matched |-> TRUE]]

\* findFeaturesByName: one record per requested name.
findFeaturesByName(featureNames, classIdentifier) ==
    [i \in 1..Len(featureNames) |->
        LET match == findMatch(candidatesOf(featureNames[i]),
                               normalizeString(Chars(classIdentifier)))
        IN IF match # <<>>
           THEN [uuid |-> match[1].uuid, name |-> featureNames[i],
                 img |-> match[1].img, matched |-> TRUE]
           ELSE [uuid |-> NoUuid, name |-> featureNames[i],
                 img |-> PlaceholderImg, matched |-> FALSE]]

\* A group or subclass identifier is a slug: its words between hyphens.
SlugWords(id) == <<Chars(id)>>

\* f.group.endsWith('-progression')
isProgressionGroup(group) ==
    Len(group) >= 2 /\ group[Len(group)] = Chars("progression")

\* The levels up to toLevel, whatever fromLevel is.
levelsUpTo(levels, fromLevel, toLevel) ==
    SelectSeq(levels, LAMBDA l : l <= toLevel)

\* f.gainedAtLevels.filter(l => l >= fromLevel && l <= toLevel)
levelsInRange(levels, fromLevel, toLevel) ==
    SelectSeq(levels, LAMBDA l : l >= fromLevel /\ l <= toLevel)

\* The push done twice.
RECURSIVE groupPushTwice(_, _, _)
groupPushTwice(groups, groupId, f) ==
    IF groups = <<>> THEN <<[groupId |-> groupId, features |-> <<f, f>>]>>
    ELSE IF Head(groups).groupId = groupId
    THEN <<[Head(groups) EXCEPT !.features = @ \o <<f, f>>]>> \o Tail(groups)
    ELSE <<Head(groups)>> \o groupPushTwice(Tail(groups), groupId, f)

\* selectableGroups.get(f.group).push(f) on a Map kept in insertion order.
RECURSIVE groupPush(_, _, _)
groupPush(groups, groupId, f) ==
    IF groups = <<>> THEN <<[groupId |-> groupId, features |-> <<f>>]>>
    ELSE IF Head(groups).groupId = groupId
    THEN <<[Head(groups) EXCEPT !.features = Append(@, f)]>> \o Tail(groups)
    ELSE <<Head(groups)>> \o groupPush(Tail(groups), groupId, f)

\* The loop without its wrong-subclass test.
RECURSIVE getClassFeaturesLoopKeepingSubclasses(_, _, _, _, _)
getClassFeaturesLoopKeepingSubclasses(features, fromLevel, toLevel, subclassIdentifier, acc) ==
    IF features = <<>> THEN acc
    ELSE LET f == Head(features)
             inRange == levelsInRange(f.gainedAtLevels, fromLevel, toLevel)
             next ==
                 IF Len(inRange) = 0 THEN acc
                 ELSE IF ~f.subclass /\ ~isProgressionGroup(f.group)
                 THEN [acc EXCEPT !.selectableGroups = groupPush(@, f.group, f)]
                 ELSE [acc EXCEPT !.progression =
                          @ \o [i \in 1..Len(inRange) |->
                                   [uuid |-> f.uuid, name |-> f.name, img |-> f.img,
                                    level |-> inRange[i], group |-> f.group]]]
         IN getClassFeaturesLoopKeepingSubclasses(Tail(features), fromLevel, toLevel,
                                                  subclassIdentifier, next)

\* getClassFeatures: the loop over the features of the class.
RECURSIVE getClassFeaturesLoop(_, _, _, _, _)
getClassFeaturesLoop(features, fromLevel, toLevel, subclassIdentifier, acc) ==
    IF features = <<>> THEN acc
    ELSE LET f == Head(features)
             inRange == levelsInRange(f.gainedAtLevels, fromLevel, toLevel)
             next ==
                 IF Len(inRange) = 0 THEN acc
                 ELSE IF f.subclass /\ (~Truthy(subclassIdentifier)
                                        \/ f.group # SlugWords(subclassIdentifier))
                 THEN acc
                 ELSE IF ~f.subclass /\ ~isProgressionGroup(f.group)
                 THEN [acc EXCEPT !.selectableGroups = groupPush(@, f.group, f)]
                 ELSE [acc EXCEPT !.progression =
                          @ \o [i \in 1..Len(inRange) |->
                                   [uuid |-> f.uuid, name |-> f.name, img |-> f.img,
                                    level |-> inRange[i], group |-> f.group]]]
         IN getClassFeaturesLoop(Tail(features), fromLevel, toLevel,
                                 subclassIdentifier, next)

getClassFeatures(classIdentifier, fromLevel, toLevel, subclassIdentifier) ==
    LET normalizedClass == normalizeString(Chars(classIdentifier))
        features == IF normalizedClass \in DOMAIN featureByClassIndex
                    THEN featureByClassIndex[normalizedClass] ELSE <<>>
    IN getClassFeaturesLoop(features, fromLevel, toLevel, subclassIdentifier,
                            [progression |-> <<>>, selectableGroups |-> <<>>])

Utility == <<"u">>            \* the school tag 'utility'
ClassFeaturesFilter == <<<<"_">>>>    \* the filter id '__class-features__'

\* new Set(schools.filter(s => s !== 'utility').map(normalize))
normalizedSchools(schools) ==
    {normalizeString(schools[i]) : i \in {j \in 1..Len(schools) : schools[j] # Utility}}

\* The test with the tier bound left out.
spellMatchesAnyTier(spell, schools, maxTier, includeUtility) ==
    /\ ~(spell.isUtility /\ ~includeUtility)
    /\ spell.normalizedSchool \in normalizedSchools(schools)

\* The test findSpellsBySchoolAndTier applies to one indexed spell.
spellMatches(spell, schools, maxTier, includeUtility) ==
    /\ ~(spell.isUtility /\ ~includeUtility)
    /\ spell.normalizedSchool \in normalizedSchools(schools)
    /\ spell.tier <= maxTier

findSpellsBySchoolAndTier(schools, maxTier, includeUtility) ==
    sortBy(SelectSeq(spellIndex,
                     LAMBDA spell : spellMatches(spell, schools, maxTier, includeUtility)),
           "tierThenName")

\* countSpellsBySchoolAndTier: its own loop over the index, with its own
\* copy of the two tests.
RECURSIVE countSpellsLoop(_, _, _, _, _)
countSpellsLoop(spells, normalized, maxTier, includeUtility, count) ==
    IF spells = <<>> THEN count
    ELSE LET spell == Head(spells)
         IN IF spell.isUtility /\ ~includeUtility
            THEN countSpellsLoop(Tail(spells), normalized, maxTier, includeUtility, count)
            ELSE IF spell.normalizedSchool \in normalized /\ spell.tier <= maxTier
            THEN countSpellsLoop(Tail(spells), normalized, maxTier, includeUtility,
                                 count + 1)
            ELSE countSpellsLoop(Tail(spells), normalized, maxTier, includeUtility, count)

\* The count with the utility test left out.
countSpellsWithUtility(schools, maxTier, includeUtility) ==
    countSpellsLoop(spellIndex, normalizedSchools(schools), maxTier, TRUE, 0)

countSpellsBySchoolAndTier(schools, maxTier, includeUtility) ==
    countSpellsLoop(spellIndex, normalizedSchools(schools), maxTier, includeUtility, 0)

findEquipmentByType(objectTypes) ==
    LET normalizedTypes == {normalizeString(objectTypes[i]) : i \in 1..Len(objectTypes)}
    IN sortBy(SelectSeq(itemIndex, LAMBDA item : item.normalizedType \in normalizedTypes),
              "name")

\* ------------------------------------------- EquipmentProficiencyResolver
\* Every object type, whatever the proficiencies are.
everyObjectType(proficiencies) ==
    <<Chars("armor"), Chars("shield"), Chars("weapon"), Chars("consumable"),
      Chars("misc")>>

\* The object types with the shield type tied to an armor tag 'shield'.
availableObjectTypesOnShieldTag(proficiencies) ==
    (IF Len(proficiencies.armor) > 0 THEN <<Chars("armor")>> ELSE <<>>)
    \o (IF "shield" \in Range(proficiencies.armor) THEN <<Chars("shield")>> ELSE <<>>)
    \o (IF Len(proficiencies.weapons) > 0 THEN <<Chars("weapon")>> ELSE <<>>)
    \o <<Chars("consumable"), Chars("misc")>>

\* findAvailableEquipment: the object types, in the order they are added.
availableObjectTypes(proficiencies) ==
    (IF Len(proficiencies.armor) > 0 THEN <<Chars("armor")>> ELSE <<>>)
    \o (IF "shields" \in Range(proficiencies.armor) \/ "all" \in Range(proficiencies.armor)
        THEN <<Chars("shield")>> ELSE <<>>)
    \o (IF Len(proficiencies.weapons) > 0 THEN <<Chars("weapon")>> ELSE <<>>)
    \o <<Chars("consumable"), Chars("misc")>>

findAvailableEquipment(classIdentifier) ==
    findEquipmentByType(availableObjectTypes(getEquipmentProficiencies(classIdentifier)))

\* findAvailableEquipment of the resolver without matchesProficiency: the
\* shield type on the armor tag 'shield', no unconditional types.
availableObjectTypesOfProficiencies(proficiencies) ==
    (IF Len(proficiencies.armor) > 0 THEN <<Chars("armor")>> ELSE <<>>)
    \o (IF "shield" \in Range(proficiencies.armor) THEN <<Chars("shield")>> ELSE <<>>)
    \o (IF Len(proficiencies.weapons) > 0 THEN <<Chars("weapon")>> ELSE <<>>)

findAvailableEquipmentOfProficiencies(classIdentifier) ==
    findEquipmentByType(
        availableObjectTypesOfProficiencies(getEquipmentProficiencies(classIdentifier)))

\* The type-specific attributes of the equipment entries (armor category,
\* weapon attribute axis, ranged flag), by identity; NoArmorType is an entry
\* without an armor category.
NoArmorType == "null"
EquipmentAttributes ==
    [uuid \in {"q1", "q2", "q3", "q4", "q5", "q6", "q7", "q8", "q9", "q10"} |->
        CASE uuid = "q1" -> [armorType |-> NoArmorType, weaponAttr |-> "strength",
                             isRanged |-> FALSE]
          [] uuid = "q2" -> [armorType |-> NoArmorType, weaponAttr |-> "dexterity",
                             isRanged |-> TRUE]
          [] uuid = "q3" -> [armorType |-> NoArmorType, weaponAttr |-> "dexterity",
                             isRanged |-> FALSE]
          [] uuid = "q4" -> [armorType |-> NoArmorType, weaponAttr |-> "strength",
                             isRanged |-> TRUE]
          [] uuid = "q5" -> [armorType |-> "light", weaponAttr |-> "", isRanged |-> FALSE]
          [] OTHER -> [armorType |-> NoArmorType, weaponAttr |-> "", isRanged |-> FALSE]]

attributesOf(item) ==
    IF item.uuid \in DOMAIN EquipmentAttributes THEN EquipmentAttributes[item.uuid]
    ELSE [armorType |-> NoArmorType, weaponAttr |-> "", isRanged |-> FALSE]

\* The weapon-category membership table: category tag -> names.
WeaponCategories == [tag \in {"blades"} |-> {<<"B", "a">>, <<"S", "a">>}]
getWeaponCategories == WeaponCategories

\* #matchesWeaponProficiency: one tag of the switch; "admit" returns true,
\* "next" goes on with the next tag.
weaponTagOutcome(item, tag) ==
    CASE tag = "all-martial" -> "admit"
      [] tag \in {"str", "all-str"} ->
            IF attributesOf(item).weaponAttr = "strength" THEN "admit" ELSE "next"
      [] tag = "dex" ->
            IF attributesOf(item).weaponAttr = "dexterity" THEN "admit" ELSE "next"
      [] tag = "melee" -> IF ~attributesOf(item).isRanged THEN "admit" ELSE "next"
      [] OTHER ->
            IF tag \in DOMAIN getWeaponCategories /\ item.name \in getWeaponCategories[tag]
            THEN "admit" ELSE "next"

\* The switch with the melee case admitting every weapon.
RECURSIVE matchesWeaponProficiencyAnyRange(_, _)
matchesWeaponProficiencyAnyRange(item, weaponTags) ==
    IF weaponTags = <<>> THEN FALSE
    ELSE IF Head(weaponTags) = "melee" \/ weaponTagOutcome(item, Head(weaponTags)) = "admit"
    THEN TRUE
    ELSE matchesWeaponProficiencyAnyRange(item, Tail(weaponTags))

\* #matchesWeaponProficiency: the loop over the tags.
RECURSIVE matchesWeaponProficiency(_, _)
matchesWeaponProficiency(item, weaponTags) ==
    IF weaponTags = <<>> THEN FALSE
    ELSE IF weaponTagOutcome(item, Head(weaponTags)) = "admit" THEN TRUE
    ELSE matchesWeaponProficiency(item, Tail(weaponTags))

\* matchesProficiency with the armor test on the listed categories only.
matchesProficiencyListedArmorOnly(item, proficiencies) ==
    LET type == item.objectType
    IN IF type = Chars("consumable") \/ type = Chars("misc") THEN TRUE
       ELSE IF type = Chars("shield")
       THEN "shields" \in Range(proficiencies.armor)
       ELSE IF type = Chars("armor")
       THEN /\ attributesOf(item).armorType # NoArmorType
            /\ attributesOf(item).armorType \in Range(proficiencies.armor)
       ELSE IF type = Chars("weapon")
       THEN matchesWeaponProficiency(item, proficiencies.weapons)
       ELSE TRUE

matchesProficiency(item, proficiencies) ==
    LET type == item.objectType
    IN IF type = Chars("consumable") \/ type = Chars("misc") THEN TRUE
       ELSE IF type = Chars("shield")
       THEN "shields" \in Range(proficiencies.armor) \/ "all" \in Range(proficiencies.armor)
       ELSE IF type = Chars("armor")
       THEN IF "all" \in Range(proficiencies.armor) THEN TRUE
            ELSE /\ attributesOf(item).armorType # NoArmorType
                 /\ attributesOf(item).armorType \in Range(proficiencies.armor)
       ELSE IF type = Chars("weapon")
       THEN matchesWeaponProficiency(item, proficiencies.weapons)
       ELSE TRUE

\* ---------------------------------------------------- ClassFeatureResolver
\* An optional value (null or a value) is <<>> or <<value>>.
Null == <<>>
Some(value) == <<value>>
NullLevel == 0                \* level: null (it sorts as 0)

\* word.charAt(0).toUpperCase() + word.slice(1)
capitalizeWord(word) ==
    IF word = <<>> THEN <<>> ELSE <<UpperChar(Head(word))>> \o Tail(word)

\* #slugToLabel: slug.split('-').map(capitalise).join(' ')
RECURSIVE slugToLabel(_)
slugToLabel(words) ==
    IF Len(words) = 1 THEN capitalizeWord(words[1])
    ELSE capitalizeWord(Head(words)) \o <<" ">> \o slugToLabel(Tail(words))

\* The result entries of the features of one selectable group.
groupEntries(group) ==
    [i \in 1..Len(group.features) |->
        [uuid |-> group.features[i].uuid, name |-> group.features[i].name,
         img |-> group.features[i].img, level |-> NullLevel, matched |-> TRUE,
         selectableGroup |-> Some(slugToLabel(group.groupId)),
         selectableGroupId |-> Some(group.groupId)]]

RECURSIVE allGroupEntries(_)
allGroupEntries(groups) ==
    IF groups = <<>> THEN <<>>
    ELSE groupEntries(Head(groups)) \o allGroupEntries(Tail(groups))

\* resolveRange (the catalog-driven resolver).
resolveRange(classIdentifier, fromLevel, toLevel, subclassIdentifier) ==
    LET found == getClassFeatures(classIdentifier, fromLevel, toLevel, subclassIdentifier)
    IN [i \in 1..Len(found.progression) |->
           [uuid |-> found.progression[i].uuid, name |-> found.progression[i].name,
            img |-> found.progression[i].img, level |-> found.progression[i].level,
            matched |-> TRUE, selectableGroup |-> Null, selectableGroupId |-> Null]]
       \o allGroupEntries(found.selectableGroups)

\* groupLevels: the distinct levels in range over the features of one group,
\* in the order a Set keeps them (first insertion).
RECURSIVE addLevels(_, _)
addLevels(groupLevels, levels) ==
    IF levels = <<>> THEN groupLevels
    ELSE addLevels(SetAdd(groupLevels, Head(levels)), Tail(levels))

RECURSIVE groupLevelsOf(_, _, _, _)
groupLevelsOf(features, fromLevel, toLevel, groupLevels) ==
    IF features = <<>> THEN groupLevels
    ELSE groupLevelsOf(Tail(features), fromLevel, toLevel,
                       addLevels(groupLevels,
                                 levelsInRange(Head(features).gainedAtLevels,
                                               fromLevel, toLevel)))

\* The result entries of one selectable group at one of its levels.
groupEntriesAtLevel(group, level) ==
    [i \in 1..Len(group.features) |->
        [uuid |-> group.features[i].uuid, name |-> group.features[i].name,
         img |-> group.features[i].img, level |-> level, matched |-> TRUE,
         selectableGroup |-> Some(slugToLabel(group.groupId)),
         selectableGroupId |-> Some(group.groupId)]]

\* for (const level of groupLevels) for (const f of features) results.push(..)
RECURSIVE groupEntriesPerLevel(_, _)
groupEntriesPerLevel(group, groupLevels) ==
    IF groupLevels = <<>> THEN <<>>
    ELSE groupEntriesAtLevel(group, Head(groupLevels))
         \o groupEntriesPerLevel(group, Tail(groupLevels))

RECURSIVE allGroupEntriesPerLevel(_, _, _)
allGroupEntriesPerLevel(groups, fromLevel, toLevel) ==
    IF groups = <<>> THEN <<>>
    ELSE groupEntriesPerLevel(Head(groups),
                              groupLevelsOf(Head(groups).features, fromLevel, toLevel, <<>>))
         \o allGroupEntriesPerLevel(Tail(groups), fromLevel, toLevel)

\* resolveRange of the resolver that repeats the options of a group at each
\* applicable level.
resolveRangePerLevel(classIdentifier, fromLevel, toLevel, subclassIdentifier) ==
    LET found == getClassFeatures(classIdentifier, fromLevel, toLevel, subclassIdentifier)
    IN [i \in 1..Len(found.progression) |->
           [uuid |-> found.progression[i].uuid, name |-> found.progression[i].name,
            img |-> found.progression[i].img, level |-> found.progression[i].level,
            matched |-> TRUE, selectableGroup |-> Null, selectableGroupId |-> Null]]
       \o allGroupEntriesPerLevel(found.selectableGroups, fromLevel, toLevel)

\* buildOwnedItemKeys: the lower-cased trimmed names and the sources of the
\* actor's items of one type.
NoSource == "null"            \* neither compendiumSource nor sourceId
buildOwnedItemKeys(items, itemType) ==
    LET typed == SelectSeq(items, LAMBDA item : item.type = itemType)
    IN [names |-> {trim(toLowerCase(typed[i].name)) : i \in 1..Len(typed)},
        sources |-> {typed[i].source : i \in 1..Len(typed)} \ {NoSource}]

\* ownedKeys.has(name.toLowerCase().trim()) || (uuid && ownedKeys.has(uuid))
isOwned(ownedKeys, name, uuid) ==
    \/ trim(toLowerCase(name)) \in ownedKeys.names
    \/ (uuid # NoUuid /\ uuid \in ownedKeys.sources)

markOwnedFeatures(items, features) ==
    LET ownedKeys == buildOwnedItemKeys(items, "feature")
    IN [i \in 1..Len(features) |->
           [alreadyOwned |-> isOwned(ownedKeys, features[i].name, features[i].uuid)]
               @@ features[i]]

\* ------------------------------- ClassFeatureResolver (rule-table driven)
\* The matches of one level, each with its level.
withLevel(matches, level) ==
    [i \in 1..Len(matches) |->
        [uuid |-> matches[i].uuid, name |-> matches[i].name, img |-> matches[i].img,
         matched |-> matches[i].matched, level |-> level]]

\* The matched records only.
resolveLevelMatchedOnly(classIdentifier, entry) ==
    SelectSeq(withLevel(findFeaturesByName(entry.features, classIdentifier), entry.level),
              LAMBDA r : r.matched)

\* The body of resolveRange's loop for one [level, featureNames] entry.
resolveLevel(classIdentifier, entry) ==
    withLevel(findFeaturesByName(entry.features, classIdentifier), entry.level)

RECURSIVE resolveRangeLoop(_, _)
resolveRangeLoop(classIdentifier, featuresByLevel) ==
    IF featuresByLevel = <<>> THEN <<>>
    ELSE resolveLevel(classIdentifier, Head(featuresByLevel))
         \o resolveRangeLoop(classIdentifier, Tail(featuresByLevel))

\* resolveRange over getFeaturesForRange and findFeaturesByName.
resolveRangeByTable(classIdentifier, fromLevel, toLevel, subclassIdentifier) ==
    resolveRangeLoop(classIdentifier,
        getFeaturesForRange(classIdentifier, fromLevel, toLevel, subclassIdentifier))

\* The selectable groups of the rule tables: the options a feature name
\* stands for.  getSelectableOptions answers from them, null for a name that
\* names no group.
SelectableOptions == [c \in {"mage"} |-> [n \in {<<"B", "a">>} |-> <<<<"F", "a">>, <<"x", "x">>>>]]

getSelectableOptions(classIdentifier, name) ==
    IF classIdentifier \in DOMAIN SelectableOptions
       /\ name \in DOMAIN SelectableOptions[classIdentifier]
    THEN Some(SelectableOptions[classIdentifier][name])
    ELSE Null

\* name.replace(/\s*\(\d+\)$/, '')
stripSuffixPattern(str) ==
    IF str # <<>> /\ str[Len(str)] = ")"
    THEN LET inner == SubSeq(str, 1, Len(str) - 1)
             digits == trailing(inner, Digits)
             before == SubSeq(inner, 1, Len(inner) - digits)
         IN IF digits > 0 /\ before # <<>> /\ before[Len(before)] = "("
            THEN LET rest == SubSeq(before, 1, Len(before) - 1)
                 IN SubSeq(rest, 1, Len(rest) - trailing(rest, Spaces))
            ELSE str
    ELSE str

\* The expanded entries of one feature name: the options of the group it
\* names (under the name itself or under the name without its numeric
\* suffix), or the name.
expandName(classIdentifier, name) ==
    LET direct == getSelectableOptions(classIdentifier, name)
        baseName == stripSuffixPattern(name)
        viaBase == IF direct = Null /\ baseName # name
                   THEN getSelectableOptions(classIdentifier, baseName) ELSE Null
        options == IF direct # Null THEN direct ELSE viaBase
        groupId == IF direct = Null /\ viaBase # Null THEN baseName ELSE name
    IN IF options # Null
       THEN [i \in 1..Len(options[1]) |->
                [name |-> options[1][i], selectableGroup |-> Some(name),
                 selectableGroupId |-> Some(groupId)]]
       ELSE <<[name |-> name, selectableGroup |-> Null, selectableGroupId |-> Null]>>

RECURSIVE expandNames(_, _)
expandNames(classIdentifier, featureNames) ==
    IF featureNames = <<>> THEN <<>>
    ELSE expandName(classIdentifier, Head(featureNames))
         \o expandNames(classIdentifier, Tail(featureNames))

RECURSIVE resolveRangeExpandingLoop(_, _)
resolveRangeExpandingLoop(classIdentifier, featuresByLevel) ==
    IF featuresByLevel = <<>> THEN <<>>
    ELSE LET level == Head(featuresByLevel).level
             expandedEntries == expandNames(classIdentifier, Head(featuresByLevel).features)
             nameStrings == [i \in 1..Len(expandedEntries) |-> expandedEntries[i].name]
             matches == findFeaturesByName(nameStrings, classIdentifier)
         IN [i \in 1..Len(matches) |->
                [uuid |-> matches[i].uuid, name |-> matches[i].name,
                 img |-> matches[i].img, matched |-> matches[i].matched,
                 level |-> level,
                 selectableGroup |-> expandedEntries[i].selectableGroup,
                 selectableGroupId |-> expandedEntries[i].selectableGroupId]]
            \o resolveRangeExpandingLoop(classIdentifier, Tail(featuresByLevel))

\* resolveRange of the variant that expands selectable groups.
resolveRangeExpanding(classIdentifier, fromLevel, toLevel, subclassIdentifier) ==
    resolveRangeExpandingLoop(classIdentifier,
        getFeaturesForRange(classIdentifier, fromLevel, toLevel, subclassIdentifier))

\* ------------------------------------------------------------ ItemGranter
\* fromUuid(uuid): the document of the catalog with this uuid, as the owned
\* record's type and name; <<>> when there is none.
documentsOf(entries, type) ==
    [i \in 1..Len(entries) |-> [uuid |-> entries[i].uuid, type |-> type,
                                name |-> entries[i].name]]

catalogDocuments ==
    (IF packs.features.present THEN documentsOf(packs.features.index, "feature") ELSE <<>>)
    \o (IF packs.spells.present THEN documentsOf(packs.spells.documents, "spell") ELSE <<>>)
    \o (IF packs.items.present THEN documentsOf(packs.items.index, "object") ELSE <<>>)

fromUuid(uuid) == SelectSeq(catalogDocuments, LAMBDA doc : doc.uuid = uuid)

\* The preparation given up at the first uuid that does not resolve.
RECURSIVE prepareItemsUntilFailure(_, _, _)
prepareItemsUntilFailure(uuids, failed, firstId) ==
    IF uuids = <<>> THEN <<>>
    ELSE LET uuid == Head(uuids)
             doc == fromUuid(uuid)
         IN IF uuid \in failed \/ doc = <<>>
            THEN <<>>
            ELSE <<[id |-> firstId, type |-> doc[1].type, name |-> doc[1].name,
                    source |-> uuid]>>
                 \o prepareItemsUntilFailure(Tail(uuids), failed, firstId + 1)

\* #prepareItemFromUuid for every uuid, then filter(Boolean): the item data
\* of the uuids that resolved (failed: the uuids whose getFullDocument gave
\* null), each with a fresh _id and compendiumSource = uuid.
RECURSIVE prepareItems(_, _, _)
prepareItems(uuids, failed, firstId) ==
    IF uuids = <<>> THEN <<>>
    ELSE LET uuid == Head(uuids)
             doc == fromUuid(uuid)
         IN IF uuid \in failed \/ doc = <<>>
            THEN prepareItems(Tail(uuids), failed, firstId)
            ELSE <<[id |-> firstId, type |-> doc[1].type, name |-> doc[1].name,
                    source |-> uuid]>>
                 \o prepareItems(Tail(uuids), failed, firstId + 1)

\* The check made on the actor's first item only.
actorHasItemFromSourceOfFirstItem(items, uuid) ==
    Len(items) > 0 /\ items[1].source = uuid

\* actorHasItemFromSource
actorHasItemFromSource(items, uuid) ==
    \E i \in 1..Len(items) : items[i].source = uuid

\* The number of createEmbeddedDocuments calls, without the two early
\* returns.
createCallsUnguarded(uuids, failed, items) == 1

\* grantItemsByUuid: the number of createEmbeddedDocuments calls it makes:
\* none for an empty list and none when no item data was prepared.
createCalls(uuids, failed, items) ==
    IF Len(uuids) = 0 THEN 0
    ELSE IF Len(prepareItems(uuids, failed, Len(items) + 1)) = 0 THEN 0
    ELSE 1

\* grantItemsByUuid(actor, uuids) as a whole (failed: the uuids whose
\* fromUuid throws inside getFullDocument): the prepared item data are stored
\* by the one createEmbeddedDocuments call, whose result is returned.
GrantItemsByUuid(uuids, failed) ==
    /\ Len(actorItems) + Len(uuids) <= MaxGrantedItems
    /\ LET itemDataArray == IF Len(uuids) = 0 THEN <<>>
                            ELSE prepareItems(uuids, failed, Len(actorItems) + 1)
           calls == createCalls(uuids, failed, actorItems)
       IN /\ actorItems' = IF calls = 0 THEN actorItems ELSE actorItems \o itemDataArray
          /\ q' = [op |-> "grantItemsByUuid",
                   args |-> <<actorItems, uuids, failed>>,
                   result |-> [returned |-> IF calls = 0 THEN <<>> ELSE itemDataArray,
                               createCalls |-> calls]]
    /\ UNCHANGED <<dpVars, cbVars, settings, hookVars, session, sessionCount>>

\* ------------------------------------------------------ selector sessions
\* The actor's class, subclass and level, as getActorClassInfo reads them.
ActorInfo ==
    [classIdentifier |-> KnownClass, subclassIdentifier |-> KnownSub,
     level |-> MaxLevel]

NoKeys == [names |-> {}, sources |-> {}]

\* A selector window as its constructor leaves it.
NewSelector(kind) ==
    [kind |-> kind,
     classIdentifier |-> ActorInfo.classIdentifier,
     subclassIdentifier |-> ActorInfo.subclassIdentifier,
     fromLevel |-> 1,
     toLevel |-> ActorInfo.level,
     entries |-> <<>>,            \* #features / #allSpells / #allEquipment
     ownedKeys |-> NoKeys,        \* SpellSelector.#ownedSpellKeys
     selectedUuids |-> <<>>,      \* #selectedUuids, in insertion order
     activeGroup |-> Null,        \* ClassFeatureSelector.#activeGroup ('' is Null)
     activeSchool |-> Null,       \* SpellSelector.#activeSchool ('' is Null)
     activeTier |-> Null,         \* SpellSelector.#activeTier
     activeCategory |-> Null,     \* EquipmentSelector.#activeCategory ('' is Null)
     initialSelectionDone |-> FALSE,
     dataLoaded |-> FALSE,
     confirms |-> <<>>,           \* #onConfirm calls suspended at their await
     grantCalls |-> 0,            \* grantItemsByUuid calls made by this window
     closed |-> FALSE]

\* A group id or label is truthy when it is a non-empty string.
TruthyLabel(opt) == opt # Null /\ opt[1] # <<>>
TruthyId(opt) == opt # Null /\ opt[1] # <<<<>>>>

RECURSIVE addAll(_, _)
addAll(selected, uuids) ==
    IF uuids = <<>> THEN selected
    ELSE addAll(SetAdd(selected, Head(uuids)), Tail(uuids))

uuidsOf(entries) == [i \in 1..Len(entries) |-> entries[i].uuid]

\* A _prepareContext whose first render selects the options of the
\* selectable groups too.
prepareFeatureContextSelectingOptions(sel, items) ==
    LET features == markOwnedFeatures(items,
                        resolveRange(sel.classIdentifier, sel.fromLevel,
                                     sel.toLevel, sel.subclassIdentifier))
        regular == SelectSeq(features, LAMBDA f : ~f.alreadyOwned /\ f.matched)
    IN [sel EXCEPT !.entries = features,
                   !.selectedUuids = IF sel.initialSelectionDone THEN @
                                     ELSE addAll(@, uuidsOf(regular)),
                   !.initialSelectionDone = TRUE]

\* ClassFeatureSelector._prepareContext
prepareFeatureContext(sel, items) ==
    LET features == markOwnedFeatures(items,
                        resolveRange(sel.classIdentifier, sel.fromLevel,
                                     sel.toLevel, sel.subclassIdentifier))
        regular == SelectSeq(features,
                       LAMBDA f : ~f.alreadyOwned /\ f.matched
                                  /\ ~TruthyLabel(f.selectableGroup))
    IN [sel EXCEPT !.entries = features,
                   !.selectedUuids = IF sel.initialSelectionDone THEN @
                                     ELSE addAll(@, uuidsOf(regular)),
                   !.initialSelectionDone = TRUE]

\* SpellSelector._prepareContext
prepareSpellContext(sel, items) ==
    LET schoolAccess == getSpellSchools(sel.classIdentifier, sel.toLevel,
                                        sel.subclassIdentifier)
        maxTier == getMaxSpellTier(sel.classIdentifier, sel.toLevel,
                                   sel.subclassIdentifier)
        hasUtility == Utility \in Range(schoolAccess.granted)
        realSchools == SelectSeq(schoolAccess.granted, LAMBDA school : school # Utility)
    IN [sel EXCEPT !.entries = findSpellsBySchoolAndTier(realSchools, maxTier, hasUtility),
                   !.ownedKeys = buildOwnedItemKeys(items, "spell")]

\* EquipmentSelector._prepareContext: #loadEquipmentData, once.
prepareEquipmentContext(sel) ==
    IF sel.dataLoaded THEN sel
    ELSE [sel EXCEPT !.entries = findAvailableEquipment(sel.classIdentifier),
                     !.dataLoaded = TRUE]

\* render(): _prepareContext of the window's class.
render(sel, items) ==
    CASE sel.kind = "feature" -> prepareFeatureContext(sel, items)
      [] sel.kind = "spell" -> prepareSpellContext(sel, items)
      [] sel.kind = "equipment" -> prepareEquipmentContext(sel)

\* The spells SpellSelector._prepareContext keeps under its two filters.
filteredSpells(sel) ==
    LET bySchool == IF sel.activeSchool = Null THEN sel.entries
                    ELSE IF sel.activeSchool = Some(Utility)
                    THEN SelectSeq(sel.entries, LAMBDA spell : spell.isUtility)
                    ELSE SelectSeq(sel.entries,
                             LAMBDA spell : Some(toLowerCase(spell.school)) = sel.activeSchool)
    IN IF sel.activeTier = Null THEN bySchool
       ELSE SelectSeq(bySchool, LAMBDA spell : Some(spell.tier) = sel.activeTier)

\* The equipment EquipmentSelector._prepareContext keeps under its filter.
filteredEquipment(sel) ==
    IF sel.activeCategory = Null THEN sel.entries
    ELSE SelectSeq(sel.entries, LAMBDA e : Some(e.objectType) = sel.activeCategory)

\* The entries the rendered window shows (the filters of the window
\* applied): the buttons an event can come from.
shownEntries(sel) ==
    IF sel.kind = "spell" THEN filteredSpells(sel)
    ELSE IF sel.kind = "equipment" THEN filteredEquipment(sel)
    ELSE IF sel.kind # "feature" \/ sel.activeGroup = Null THEN sel.entries
    ELSE IF sel.activeGroup = Some(ClassFeaturesFilter)
    THEN SelectSeq(sel.entries, LAMBDA f : ~TruthyId(f.selectableGroupId))
    ELSE SelectSeq(sel.entries, LAMBDA f : f.selectableGroupId = sel.activeGroup)

\* selectedUuids.has(uuid) ? delete(uuid) : add(uuid)
toggle(selected, uuid) ==
    IF uuid \in Range(selected)
    THEN SelectSeq(selected, LAMBDA u : u # uuid)
    ELSE Append(selected, uuid)

\* No window has been opened yet.
NoSession == [NewSelector("none") EXCEPT !.closed = TRUE]

IsOpen == ~session.closed

\* The handler's changes to the window, followed by its this.render().
Rerender(sel) ==
    /\ session' = render(sel, actorItems)
    /\ UNCHANGED <<dpVars, cbVars, settings, hookVars, actorItems, sessionCount, q>>

\* SelectorOrchestrator.open*Selector: ensureReady() finds both flags set,
\* the window is constructed and rendered.  One window is open at a time:
\* the next one is opened when the last one has closed and its confirms
\* have finished.
OpenSelector(kind) ==
    /\ sessionCount < MaxSessions
    /\ session.closed /\ session.confirms = <<>>
    /\ loaded /\ initialized
    /\ session' = render(NewSelector(kind), actorItems)
    /\ sessionCount' = sessionCount + 1
    /\ UNCHANGED <<dpVars, cbVars, settings, hookVars, actorItems, q>>

\* The user sets the client setting autoSelectFeatures in the settings form.
ChangeSetting(value) ==
    /\ settings' = [settings EXCEPT !.autoSelectFeatures = value]
    /\ UNCHANGED <<dpVars, cbVars, uiVars, hookVars, q>>

\* ClassFeatureSelector.#onFilterGroup
FilterGroup(group) ==
    /\ IsOpen /\ session.kind = "feature"
    /\ Rerender([session EXCEPT !.activeGroup =
                    IF @ = Some(group) THEN Null ELSE Some(group)])

\* An #onToggleFeature without its test of alreadyOwned.
ToggleFeatureOfOwned(uuid) ==
    /\ IsOpen /\ session.kind = "feature"
    /\ uuid \in Range(uuidsOf(shownEntries(session)))
    /\ Rerender([session EXCEPT !.selectedUuids = toggle(@, uuid)])

\* ClassFeatureSelector.#onToggleFeature
ToggleFeature(uuid) ==
    /\ IsOpen /\ session.kind = "feature"
    /\ uuid \in Range(uuidsOf(shownEntries(session)))
    /\ LET found == SelectSeq(session.entries, LAMBDA f : f.uuid = uuid)
       IN ~found[1].alreadyOwned
    /\ Rerender([session EXCEPT !.selectedUuids = toggle(@, uuid)])

\* The features #onSelectAll adds.
selectAllTargets(sel) ==
    SelectSeq(sel.entries,
        LAMBDA f : /\ ~(f.alreadyOwned \/ ~f.matched)
                   /\ ~(sel.activeGroup # Null /\ f.selectableGroupId # sel.activeGroup))

\* ClassFeatureSelector.#onSelectAll
SelectAll ==
    /\ IsOpen /\ session.kind = "feature"
    /\ Rerender([session EXCEPT !.selectedUuids =
                    addAll(@, uuidsOf(selectAllTargets(session)))])

\* ClassFeatureSelector.#onDeselectAll
DeselectAll ==
    /\ IsOpen /\ session.kind = "feature"
    /\ LET inGroup == {session.entries[j].uuid :
                          j \in {k \in 1..Len(session.entries) :
                                    session.entries[k].selectableGroupId
                                        = session.activeGroup}}
       IN Rerender([session EXCEPT !.selectedUuids =
                       IF session.activeGroup # Null
                       THEN SelectSeq(@, LAMBDA u : u \notin inGroup)
                       ELSE <<>>])

\* SpellSelector.#onToggleSpell: the ownership test reads the keys cached by
\* the last render.
ToggleSpell(uuid) ==
    /\ IsOpen /\ session.kind = "spell"
    /\ uuid \in Range(uuidsOf(shownEntries(session)))
    /\ uuid \notin session.ownedKeys.sources
    /\ LET found == SelectSeq(session.entries, LAMBDA spell : spell.uuid = uuid)
       IN ~(found # <<>>
            /\ trim(toLowerCase(found[1].name)) \in session.ownedKeys.names)
    /\ Rerender([session EXCEPT !.selectedUuids = toggle(@, uuid)])

\* EquipmentSelector.#onToggleEquipment
ToggleEquipment(uuid) ==
    /\ IsOpen /\ session.kind = "equipment"
    /\ uuid \in Range(uuidsOf(shownEntries(session)))
    /\ Rerender([session EXCEPT !.selectedUuids = toggle(@, uuid)])

\* SpellSelector.#onFilterSchool: the buttons are the granted schools.
FilterSchool(school) ==
    /\ IsOpen /\ session.kind = "spell"
    /\ school \in Range(getSpellSchools(session.classIdentifier, session.toLevel,
                                        session.subclassIdentifier).granted)
    /\ Rerender([session EXCEPT !.activeSchool =
                    IF @ = Some(school) THEN Null ELSE Some(school)])

\* SpellSelector.#onFilterTier: the buttons are the tiers up to the highest
\* one granted, and the button of all tiers, whose data-tier is ''.
FilterTier(tier) ==
    /\ IsOpen /\ session.kind = "spell"
    /\ tier # Null => tier[1] \in 1..getMaxSpellTier(session.classIdentifier, session.toLevel,
                                                     session.subclassIdentifier)
    /\ Rerender([session EXCEPT !.activeTier =
                    IF tier = Null THEN Null
                    ELSE IF @ = tier THEN Null ELSE tier])

\* EquipmentSelector.#onFilterCategory: the buttons are the object types of
\* the equipment loaded.
FilterCategory(category) ==
    /\ IsOpen /\ session.kind = "equipment"
    /\ \E i \in 1..Len(session.entries) : session.entries[i].objectType = category
    /\ Rerender([session EXCEPT !.activeCategory =
                    IF @ = Some(category) THEN Null ELSE Some(category)])

\* The number of item data the suspended grants may still create.
RECURSIVE pendingItems(_)
pendingItems(confirms) ==
    IF confirms = <<>> THEN 0
    ELSE (IF Head(confirms).stage = "granting" THEN Len(Head(confirms).uuids) ELSE 0)
         + pendingItems(Tail(confirms))

\* An #onConfirm without its test of an empty selection.
ConfirmStartOfAnySelection ==
    /\ IsOpen
    /\ session.grantCalls < MaxConfirms
    /\ Len(actorItems) + Len(session.selectedUuids)
           + pendingItems(session.confirms) <= MaxItems
    /\ session' = [session EXCEPT
           !.confirms = Append(@, [uuids |-> session.selectedUuids,
                                   stage |-> "granting"]),
           !.grantCalls = @ + 1]
    /\ UNCHANGED <<dpVars, cbVars, settings, hookVars, actorItems, sessionCount, q>>

\* #onConfirm of any selector, up to its await: the selection is copied and
\* grantItemsByUuid is called, which suspends in #prepareItemFromUuid.
ConfirmStart ==
    /\ IsOpen
    /\ session.grantCalls < MaxConfirms
    /\ Len(session.selectedUuids) > 0
    /\ Len(actorItems) + Len(session.selectedUuids)
           + pendingItems(session.confirms) <= MaxItems
    /\ session' = [session EXCEPT
           !.confirms = Append(@, [uuids |-> session.selectedUuids,
                                   stage |-> "granting"]),
           !.grantCalls = @ + 1]
    /\ UNCHANGED <<dpVars, cbVars, settings, hookVars, actorItems, sessionCount, q>>

\* grantItemsByUuid resumes with the prepared item data (failed: the uuids
\* that did not resolve) and actor.createEmbeddedDocuments stores them.  The
\* rest of #onConfirm reads its uuids only for the text of a notification.
GrantCreate(k, failed) ==
    /\ session.confirms[k].stage = "granting"
    /\ actorItems' = actorItems
           \o prepareItems(session.confirms[k].uuids, failed, Len(actorItems) + 1)
    /\ session' = [session EXCEPT !.confirms[k] = [uuids |-> <<>>, stage |-> "created"]]
    /\ UNCHANGED <<dpVars, cbVars, settings, hookVars, sessionCount, q>>

\* #onConfirm resumes after the grant: the selection is cleared and the
\* window closes.
ConfirmFinish(k) ==
    /\ session.confirms[k].stage = "created"
    /\ session' = [session EXCEPT
           !.selectedUuids = <<>>,
           !.closed = TRUE,
           !.confirms = [j \in 1..(Len(@) - 1) |-> IF j < k THEN @[j] ELSE @[j + 1]]]
    /\ UNCHANGED <<dpVars, cbVars, settings, hookVars, actorItems, sessionCount, q>>

\* #onCancel of any selector.
Cancel ==
    /\ IsOpen
    /\ session' = [session EXCEPT !.closed = TRUE]
    /\ UNCHANGED <<dpVars, cbVars, settings, hookVars, actorItems, sessionCount, q>>

\* if (this.#initialized) return;
initializeReturnsEarly == initialized

\* A sub-task of initialize() returns at once when its pack is missing and
\* is suspended at its await otherwise.
indexTaskStart(pack) == IF pack.present THEN "awaiting" ELSE "done"

\* initialize() up to its await: the early return, or the three indexers
\* started, each up to its own await.
InitializeCall ==
    /\ initCallCount < MaxInitCalls
    /\ initCallCount' = initCallCount + 1
    /\ IF initializeReturnsEarly
       THEN UNCHANGED initCalls
       ELSE initCalls' = Append(initCalls,
                [features |-> indexTaskStart(packs.features),
                 spells |-> indexTaskStart(packs.spells),
                 items |-> indexTaskStart(packs.items)])
    /\ UNCHANGED <<dpVars, packs, indices, initialized, uiVars, settings, hookVars, q>>

\* #indexFeatures of call i resumes after pack.getIndex() and runs its loop.
IndexFeaturesResume(i) ==
    /\ initCalls[i].features = "awaiting"
    /\ LET maps == indexFeaturesLoop(packs.features.index,
                       buildFolderClassMap(packs.features.folders),
                       [byName |-> featureIndex, byClass |-> featureByClassIndex])
       IN /\ featureIndex' = maps.byName
          /\ featureByClassIndex' = maps.byClass
    /\ initCalls' = [initCalls EXCEPT ![i].features = "done"]
    /\ UNCHANGED <<dpVars, packs, spellIndex, itemIndex, initialized, initCallCount, uiVars, settings, hookVars, q>>

\* #indexSpells of call i resumes after pack.getDocuments() and runs its loop.
IndexSpellsResume(i) ==
    /\ initCalls[i].spells = "awaiting"
    /\ spellIndex' = indexSpellsLoop(packs.spells.documents, spellIndex)
    /\ initCalls' = [initCalls EXCEPT ![i].spells = "done"]
    /\ UNCHANGED <<dpVars, packs, featureIndex, featureByClassIndex, itemIndex,
                   initialized, initCallCount, uiVars, settings, hookVars, q>>

\* #indexItems of call i resumes after pack.getIndex() and runs its loop.
IndexItemsResume(i) ==
    /\ initCalls[i].items = "awaiting"
    /\ itemIndex' = indexItemsLoop(packs.items.index, itemIndex)
    /\ initCalls' = [initCalls EXCEPT ![i].items = "done"]
    /\ UNCHANGED <<dpVars, packs, featureIndex, featureByClassIndex, spellIndex,
                   initialized, initCallCount, uiVars, settings, hookVars, q>>

\* Promise.all of call i has resolved: this.#initialized = true.
InitializeFinish(i) ==
    /\ initCalls[i] = [features |-> "done", spells |-> "done", items |-> "done"]
    /\ initialized' = TRUE
    /\ initCalls' = [j \in 1..(Len(initCalls) - 1) |->
                        IF j < i THEN initCalls[j] ELSE initCalls[j + 1]]
    /\ UNCHANGED <<dpVars, packs, indices, initCallCount, uiVars, settings, hookVars, q>>

\* A CompendiumBrowser on which initialize() has not been called.
NotInitialized(catalog) ==
    /\ packs = catalog
    /\ featureIndex = EmptyMap
    /\ featureByClassIndex = EmptyMap
    /\ spellIndex = <<>>
    /\ itemIndex = <<>>
    /\ initialized = FALSE
    /\ initCalls = <<>>
    /\ initCallCount = 0

\* The state of a CompendiumBrowser whose one initialize() has completed.
InitializedWith(catalog) ==
    /\ packs = catalog
    /\ LET maps == IF catalog.features.present
                   THEN indexFeaturesLoop(catalog.features.index,
                            buildFolderClassMap(catalog.features.folders),
                            [byName |-> EmptyMap, byClass |-> EmptyMap])
                   ELSE [byName |-> EmptyMap, byClass |-> EmptyMap]
       IN /\ featureIndex = maps.byName
          /\ featureByClassIndex = maps.byClass
    /\ spellIndex = IF catalog.spells.present
                    THEN indexSpellsLoop(catalog.spells.documents, <<>>) ELSE <<>>
    /\ itemIndex = IF catalog.items.present
                   THEN indexItemsLoop(catalog.items.index, <<>>) ELSE <<>>
    /\ initialized = TRUE
    /\ initCalls = <<>>
    /\ initCallCount = 1

\* ------------------------------------------------- module.mjs: the hooks
\* Hooks.once('ready') up to its await: load() and initialize() are both
\* called before Promise.all is awaited.
ReadyHookCall ==
    /\ readyHook = "notRun"
    /\ readyHook' = "awaiting"
    /\ loadCallCount' = loadCallCount + 1
    /\ IF loadReturnsEarly
       THEN UNCHANGED <<loadPending, fetchCount>>
       ELSE /\ loadPending' = loadPending + 1
            /\ fetchCount' = fetchCount + Cardinality(FileNames)
    /\ initCallCount' = initCallCount + 1
    /\ IF initializeReturnsEarly
       THEN UNCHANGED initCalls
       ELSE initCalls' = Append(initCalls,
                [features |-> indexTaskStart(packs.features),
                 spells |-> indexTaskStart(packs.spells),
                 items |-> indexTaskStart(packs.items)])
    /\ UNCHANGED <<dpVariant, files, ruleTables, loaded, lastLoad, packs, indices, initialized>>
    /\ UNCHANGED <<uiVars, settings, orchestrator, actor, panels, timers, q>>

\* A ready hook that creates the orchestrator as soon as load() has settled.
readyPromiseOfLoadOnly ==
    IF loadPending > 0 THEN "pending"
    ELSE IF lastLoad.result = "rejected" THEN "rejected"
    ELSE "resolved"

\* How the Promise.all of the ready hook stands: rejected once its load()
\* has rejected, resolved once its load() and its initialize() have both
\* resolved, pending otherwise. The hook's calls are the only ones made
\* before the orchestrator exists.
readyPromise ==
    IF loadPending > 0 THEN "pending"
    ELSE IF lastLoad.result = "rejected" THEN "rejected"
    ELSE IF initCalls = <<>> /\ initialized THEN "resolved"
    ELSE "pending"

\* The ready hook resumes: orchestrator = new SelectorOrchestrator(), or the
\* catch block, which leaves orchestrator null.
ReadyHookResume ==
    /\ readyHook = "awaiting"
    /\ readyPromise # "pending"
    /\ IF readyPromise = "resolved"
       THEN orchestrator' = TRUE /\ readyHook' = "done"
       ELSE orchestrator' = FALSE /\ readyHook' = "failed"
    /\ UNCHANGED <<dpVars, cbVars, uiVars, settings, actor, panels, timers, q>>

\* SelectorOrchestrator.ensureReady: it resolves without suspending when
\* both flags are set, and is suspended at the await of load() or of
\* initialize() otherwise.
ensureReady == IF loaded /\ initialized THEN "resolved" ELSE "awaiting"

\* SelectorOrchestrator.getActorClassInfo
getActorClassInfo(a) ==
    IF a.type # "character" THEN Null
    ELSE IF a.classLevel = 0 THEN Null
    ELSE Some([classIdentifier |-> KnownClass, subclassIdentifier |-> KnownSub,
               level |-> a.classLevel])

\* new SelectorPanel(actor, classIdentifier, level, fromLevel, subclassIdentifier)
SelectorPanel(classIdentifier, level, fromLevel, subclassIdentifier) ==
    [classIdentifier |-> classIdentifier, level |-> level, fromLevel |-> fromLevel,
     subclassIdentifier |-> subclassIdentifier]

\* SelectorOrchestrator.openForActor: the panels after the call. A call
\* suspended in ensureReady has opened nothing.
openForActor(a) ==
    IF ensureReady # "resolved" THEN panels
    ELSE LET info == getActorClassInfo(a)
         IN IF info = Null THEN panels
            ELSE Append(panels, SelectorPanel(info[1].classIdentifier, info[1].level, 1,
                                              info[1].subclassIdentifier))

\* SelectorOrchestrator.openForLevelUp
openForLevelUp(a, fromLevel, toLevel) ==
    IF ensureReady # "resolved" THEN panels
    ELSE LET info == getActorClassInfo(a)
         IN IF info = Null THEN panels
            ELSE Append(panels, SelectorPanel(info[1].classIdentifier, toLevel, fromLevel,
                                              info[1].subclassIdentifier))

\* _openForControlledToken: found tells whether a controlled token or a
\* default character gives an actor.
openForControlledToken(found) ==
    IF ~orchestrator THEN panels
    ELSE IF ~found \/ actor.type # "character" THEN panels
    ELSE openForActor(actor)

\* The keybinding's onDown.
KeybindingDown(found) ==
    /\ Len(panels) < MaxPanels
    /\ panels' = openForControlledToken(found)
    /\ UNCHANGED <<dpVars, cbVars, uiVars, settings, orchestrator, readyHook, actor, timers, q>>

\* The scene control button's onClick.
SceneButtonClick(found) ==
    /\ Len(panels) < MaxPanels
    /\ panels' = openForControlledToken(found)
    /\ UNCHANGED <<dpVars, cbVars, uiVars, settings, orchestrator, readyHook, actor, timers, q>>

\* The nimbleSelector action of the character sheet header, which
\* _patchCharacterSheetControls registers in the ready hook after the
\* orchestrator is created.
SheetHeaderAction ==
    /\ Len(panels) < MaxPanels
    /\ readyHook = "done"
    /\ panels' = IF ~orchestrator THEN panels ELSE openForActor(actor)
    /\ UNCHANGED <<dpVars, cbVars, uiVars, settings, orchestrator, readyHook, actor, timers, q>>

\* The actor directory entry: its condition shows it for characters only.
DirectoryMenuCallback ==
    /\ Len(panels) < MaxPanels
    /\ actor.type = "character"
    /\ panels' = IF orchestrator THEN openForActor(actor) ELSE panels
    /\ UNCHANGED <<dpVars, cbVars, uiVars, settings, orchestrator, readyHook, actor, timers, q>>

LocalUser == "local"

\* Whether the updateItem hook gets as far as openForLevelUp.
levelUpDetected(itemType, changes, userId) ==
    /\ userId = LocalUser
    /\ itemType = "class"
    /\ changes # Null
    /\ settings.autoOpenOnLevelUp /\ orchestrator
    /\ actor.type = "character"
    /\ ~(changes[1] < 2)

\* An item of the actor is updated and Hooks.on('updateItem') runs: changes
\* holds the new system.classLevel, or Null when the update leaves it alone.
UpdateItem(itemType, changes, userId) ==
    /\ Len(panels) < MaxPanels
    /\ itemType = "class" => actor.classLevel > 0
    /\ (itemType = "class" /\ changes # Null) => changes[1] # actor.classLevel
    /\ itemType # "class" => changes = Null
    /\ actor' = IF itemType = "class" /\ changes # Null
                THEN [actor EXCEPT !.classLevel = changes[1]] ELSE actor
    /\ panels' = IF levelUpDetected(itemType, changes, userId)
                 THEN LET a == [actor EXCEPT !.classLevel = changes[1]]
                      IN openForLevelUp(a, changes[1], changes[1])
                 ELSE panels
    /\ UNCHANGED <<dpVars, cbVars, uiVars, settings, orchestrator, readyHook, timers, q>>

\* An item is created on the actor and Hooks.on('createItem') runs: for a
\* class item it starts the timer of 500 ms.
CreateItem(itemType, userId) ==
    /\ timers < MaxTimers
    /\ itemType = "class" => actor.classLevel = 0
    /\ actor' = IF itemType = "class" THEN [actor EXCEPT !.classLevel = 1] ELSE actor
    /\ timers' = IF /\ userId = LocalUser
                    /\ itemType = "class"
                    /\ settings.autoOpenOnLevelUp /\ orchestrator
                    /\ actor.type = "character"
                 THEN timers + 1 ELSE timers
    /\ UNCHANGED <<dpVars, cbVars, uiVars, settings, orchestrator, readyHook, panels, q>>

\* The timer of the createItem hook fires: orchestrator.openForActor(actor).
TimerFires ==
    /\ Len(panels) < MaxPanels
    /\ timers > 0
    /\ timers' = timers - 1
    /\ panels' = openForActor(actor)
    /\ UNCHANGED <<dpVars, cbVars, uiVars, settings, orchestrator, readyHook, actor, q>>

\* The user sets the client setting autoOpenOnLevelUp in the settings form.
ChangeAutoOpenSetting(value) ==
    /\ settings' = [settings EXCEPT !.autoOpenOnLevelUp = value]
    /\ UNCHANGED <<dpVars, cbVars, uiVars, hookVars, q>>

\* ------------------------------------------------------ the content catalog
\* The packs are data of the game system; the specifications draw them from
\* these values.
Feature(uuid, name, class, folder, group, levels, single, subclass) ==
    [uuid |-> uuid, name |-> name, img |-> "icon", class |-> class,
     folder |-> folder, group |-> group, gainedAtLevels |-> levels,
     gainedAtLevel |-> single, subclass |-> subclass]

SampleFolders ==
    [id \in {"fd1", "fd2"} |->
        IF id = "fd1" THEN [name |-> <<"M", "a", "g", "e", " ">>, folder |-> NoFolder]
        ELSE [name |-> <<"A", "r", "s">>, folder |-> "fd1"]]

SampleFeatures ==
    <<Feature("f1", <<"A", "b">>, <<"M", "a", "g", "e">>, NoFolder,
              <<Chars("mage"), Chars("progression")>>, <<1>>, <<>>, FALSE),
      Feature("f2", <<"B", "a">>, <<>>, "fd2",
              <<Chars("arsenal")>>, <<>>, <<2>>, FALSE),
      Feature("f3", <<"F", "a">>, <<"m", "a", "g", "e">>, NoFolder,
              SlugWords(KnownSub), <<2, 3>>, <<>>, TRUE)>>

SampleSpells ==
    <<[uuid |-> "s1", name |-> <<"F", "b">>, img |-> "icon", school |-> <<"F">>,
       tier |-> 1, selected |-> {}],
      [uuid |-> "s2", name |-> <<"A", "f">>, img |-> "icon", school |-> <<"i">>,
       tier |-> 2, selected |-> {"utilitySpell"}]>>

SampleItems ==
    <<[uuid |-> "e1", name |-> <<"R", "b">>, img |-> "icon",
       objectType |-> <<"W", "e", "a", "p", "o", "n">>],
      [uuid |-> "e2", name |-> <<"B", "r">>, img |-> "icon",
       objectType |-> Chars("misc")]>>

SampleCatalog ==
    [features |-> [present |-> TRUE, folders |-> SampleFolders, index |-> SampleFeatures],
     spells |-> [present |-> TRUE, documents |-> SampleSpells],
     items |-> [present |-> TRUE, index |-> SampleItems]]

\* The same catalog without its spell pack.
NoSpellPackCatalog == [SampleCatalog EXCEPT !.spells.present = FALSE]

Catalogs == {SampleCatalog, NoSpellPackCatalog}

\* ------------------------------------------------ the queries, continued
QueryFeaturesForLevel(classIdentifier, level, subclassIdentifier) ==
    Answer("getFeaturesForLevel", <<classIdentifier, level, subclassIdentifier>>,
           getFeaturesForLevel(classIdentifier, level, subclassIdentifier))

QueryFeaturesForRange(classIdentifier, fromLevel, toLevel, subclassIdentifier) ==
    Answer("getFeaturesForRange",
           <<classIdentifier, fromLevel, toLevel, subclassIdentifier>>,
           getFeaturesForRange(classIdentifier, fromLevel, toLevel, subclassIdentifier))

QueryEquipmentProficiencies(classIdentifier) ==
    Answer("getEquipmentProficiencies", <<classIdentifier>>,
           getEquipmentProficiencies(classIdentifier))

QueryHasCasting(classIdentifier, subclassIdentifier) ==
    Answer("hasCasting", <<classIdentifier, subclassIdentifier>>,
           hasCasting(classIdentifier, subclassIdentifier))

QueryAvailableEquipment(classIdentifier) ==
    Answer("findAvailableEquipment", <<classIdentifier>>,
           findAvailableEquipment(classIdentifier))

QueryAvailableEquipmentOfProficiencies(classIdentifier) ==
    Answer("findAvailableEquipmentOfProficiencies", <<classIdentifier>>,
           findAvailableEquipmentOfProficiencies(classIdentifier))

\* The stricter filter of the equipment selector on one indexed item.
QueryMatchesProficiency(item, classIdentifier) ==
    Answer("matchesProficiency", <<item, classIdentifier>>,
           matchesProficiency(item, getEquipmentProficiencies(classIdentifier)))

\* markOwnedFeatures(actor, features) on the actor's present items.
QueryMarkOwnedFeatures(features) ==
    Answer("markOwnedFeatures", <<features>>, markOwnedFeatures(actorItems, features))

QueryClassFeatures(classIdentifier, fromLevel, toLevel, subclassIdentifier) ==
    Answer("getClassFeatures",
           <<classIdentifier, fromLevel, toLevel, subclassIdentifier>>,
           getClassFeatures(classIdentifier, fromLevel, toLevel, subclassIdentifier))

QueryFeaturesByName(featureNames, classIdentifier) ==
    Answer("findFeaturesByName", <<featureNames, classIdentifier>>,
           findFeaturesByName(featureNames, classIdentifier))

QuerySpellsBySchoolAndTier(schools, maxTier, includeUtility) ==
    Answer("findSpellsBySchoolAndTier", <<schools, maxTier, includeUtility>>,
           findSpellsBySchoolAndTier(schools, maxTier, includeUtility))

QueryCountSpells(schools, maxTier, includeUtility) ==
    Answer("countSpellsBySchoolAndTier", <<schools, maxTier, includeUtility>>,
           countSpellsBySchoolAndTier(schools, maxTier, includeUtility))

QueryResolveRangeByTable(classIdentifier, fromLevel, toLevel, subclassIdentifier) ==
    Answer("resolveRangeByTable",
           <<classIdentifier, fromLevel, toLevel, subclassIdentifier>>,
           resolveRangeByTable(classIdentifier, fromLevel, toLevel, subclassIdentifier))

QueryResolveRangeExpanding(classIdentifier, fromLevel, toLevel, subclassIdentifier) ==
    Answer("resolveRangeExpanding",
           <<classIdentifier, fromLevel, toLevel, subclassIdentifier>>,
           resolveRangeExpanding(classIdentifier, fromLevel, toLevel, subclassIdentifier))

QueryResolveRange(classIdentifier, fromLevel, toLevel, subclassIdentifier) ==
    Answer("resolveRange",
           <<classIdentifier, fromLevel, toLevel, subclassIdentifier>>,
           resolveRange(classIdentifier, fromLevel, toLevel, subclassIdentifier))

QueryResolveRangePerLevel(classIdentifier, fromLevel, toLevel, subclassIdentifier) ==
    Answer("resolveRangePerLevel",
           <<classIdentifier, fromLevel, toLevel, subclassIdentifier>>,
           resolveRangePerLevel(classIdentifier, fromLevel, toLevel, subclassIdentifier))

\* An in-place sort of the index itself (the Map's values re-inserted in the
\* sorted order).
itemIndexSortedInPlace == sortBy(itemIndex, "name")

\* findEquipmentByType collects the matches in a new array and sorts that
\* array: #itemIndex is as it was.
itemIndexAfterFind == itemIndex

QueryEquipmentByType(objectTypes) ==
    /\ q' = [op |-> "findEquipmentByType", args |-> <<objectTypes>>,
             result |-> findEquipmentByType(objectTypes)]
    /\ itemIndex' = itemIndexAfterFind
    /\ UNCHANGED <<dpVars, packs, featureIndex, featureByClassIndex, spellIndex,
                   initialized, initCalls, initCallCount, uiVars, settings, hookVars>>

\* One rule-table file of each kind.
SampleClassFeatures ==
    [c \in {KnownClass} |->
        [base |-> [l \in {1, 2} |-> IF l = 1 THEN <<<<"A", "b">>>> ELSE <<<<"B", "a">>>>],
         subclasses |-> [s \in {KnownSub} |-> [l \in {2} |-> <<<<"F", "a">>>>]]]]

SampleSchools ==
    [c \in {KnownClass} |->
        [base |-> [l \in {1} |-> List(<<Fire>>)],
         choices |-> [l \in {2} |-> ChoiceA],
         subclasses |-> [s \in {KnownSub} |-> [l \in {1} |-> List(<<PlusIce>>)]]]]

SampleTiers ==
    [c \in {KnownClass} |->
        [base |-> [l \in {1, MaxLevel} |-> IF l = 1 THEN 1 ELSE 2],
         subclasses |-> [s \in {KnownSub} |-> [l \in {1} |-> 2]]]]

SampleProficiencies ==
    [c \in {KnownClass} |-> [armor |-> <<"shields">>, weapons |-> <<"melee">>]]

\* --- SpecTiers: getMaxSpellTier over every spell-tier table of TierTables.
InitTiers ==
    /\ \E st \in TierTables : LoadedWith(EmptyObject, EmptyObject, st, EmptyObject)
    /\ InitializedWith(SampleCatalog)
    /\ actorItems = <<>>
    /\ session = NoSession
    /\ sessionCount = 0
    /\ settings = DefaultSettings
    /\ HooksNotRun
    /\ q = NoQuery

NextTiers ==
    \E c \in ClassIds, l \in Levels, s \in SubIds : QueryMaxSpellTier(c, l, s)

SpecTiers == InitTiers /\ [][NextTiers]_vars

\* --- SpecSchools: getSpellSchools over every spell-school table of SchoolTables.
InitSchools ==
    /\ \E ss \in SchoolTables : LoadedWith(EmptyObject, ss, EmptyObject, EmptyObject)
    /\ InitializedWith(SampleCatalog)
    /\ actorItems = <<>>
    /\ session = NoSession
    /\ sessionCount = 0
    /\ settings = DefaultSettings
    /\ HooksNotRun
    /\ q = NoQuery

NextSchools ==
    \/ \E c \in ClassIds, l \in Levels, s \in SubIds : QuerySpellSchools(c, l, s)
    \/ \E c \in ClassIds, s \in SubIds : QueryHasCasting(c, s)

SpecSchools == InitSchools /\ [][NextSchools]_vars


\* --- SpecLoad: load() called at any time, in any number (up to the bound),
\* with every outcome of every fetch.
InitLoad ==
    /\ \E variant \in {"three", "four"} :
           NotLoaded(variant, SampleClassFeatures, SampleSchools, SampleTiers,
                     SampleProficiencies)
    /\ NotInitialized(SampleCatalog)
    /\ actorItems = <<>>
    /\ session = NoSession
    /\ sessionCount = 0
    /\ settings = DefaultSettings
    /\ HooksNotRun
    /\ q = NoQuery

NextLoad ==
    \/ LoadCall
    \/ \E outcomes \in [FileNames -> FetchOutcomes] : LoadResume(outcomes)

SpecLoad == InitLoad /\ [][NextLoad]_vars

\* --- SpecInit: initialize() called at any time, in any number (up to the
\* bound), its three indexers resuming in any order.
InitInit ==
    /\ NotLoaded("four", SampleClassFeatures, SampleSchools, SampleTiers,
                 SampleProficiencies)
    /\ \E catalog \in Catalogs : NotInitialized(catalog)
    /\ actorItems = <<>>
    /\ session = NoSession
    /\ sessionCount = 0
    /\ settings = DefaultSettings
    /\ HooksNotRun
    /\ q = NoQuery

NextInit ==
    \/ InitializeCall
    \/ \E i \in 1..Len(initCalls) : IndexFeaturesResume(i)
    \/ \E i \in 1..Len(initCalls) : IndexSpellsResume(i)
    \/ \E i \in 1..Len(initCalls) : IndexItemsResume(i)
    \/ \E i \in 1..Len(initCalls) : InitializeFinish(i)

SpecInit == InitInit /\ [][NextInit]_vars

\* --- SpecSession: load() and initialize() have completed; selector windows
\* are opened on the actor and receive their events in any order.
SelectorKinds == {"feature", "spell", "equipment"}
Uuids == Range(uuidsOf(catalogDocuments))
GroupIds == {ClassFeaturesFilter, <<Chars("arsenal")>>}

InitSession ==
    /\ LoadedWith(SampleClassFeatures, SampleSchools, SampleTiers, SampleProficiencies)
    /\ InitializedWith(SampleCatalog)
    /\ actorItems = <<>>
    /\ session = NoSession
    /\ sessionCount = 0
    /\ settings = DefaultSettings
    /\ HooksNotRun
    /\ q = NoQuery

NextSession ==
    \/ \E kind \in SelectorKinds : OpenSelector(kind)
    \/ \E group \in GroupIds : FilterGroup(group)
    \/ \E uuid \in Uuids : ToggleFeature(uuid)
    \/ SelectAll
    \/ DeselectAll
    \/ \E uuid \in Uuids : ToggleSpell(uuid)
    \/ \E uuid \in Uuids : ToggleEquipment(uuid)
    \/ ConfirmStart
    \/ \E k \in 1..Len(session.confirms) :
           \E failed \in SUBSET Range(session.confirms[k].uuids) :
               GrantCreate(k, failed)
    \/ \E k \in 1..Len(session.confirms) : ConfirmFinish(k)
    \/ Cancel

SpecSession == InitSession /\ [][NextSession]_vars

\* --- SpecResolve: the queries of the DataProvider and of the resolvers on
\* the tables a load() can leave: every file fetched or degraded to {}, or
\* (the load rejected) every table still null.
LoadOutcomeTables ==
    {[classFeatures |-> cf, spellSchools |-> ss, spellTiers |-> st,
      equipmentProficiencies |-> ep] :
        cf \in {SampleClassFeatures, EmptyObject},
        ss \in {SampleSchools, EmptyObject},
        st \in {SampleTiers, EmptyObject},
        ep \in {SampleProficiencies, EmptyObject}}

InitResolve ==
    /\ \/ \E t \in LoadOutcomeTables :
              /\ LoadedWith(t.classFeatures, t.spellSchools, t.spellTiers,
                            t.equipmentProficiencies)
       \/ /\ NotLoaded("four", SampleClassFeatures, SampleSchools, SampleTiers,
                       SampleProficiencies)
    /\ InitializedWith(SampleCatalog)
    /\ actorItems = <<>>
    /\ session = NoSession
    /\ sessionCount = 0
    /\ settings = DefaultSettings
    /\ HooksNotRun
    /\ q = NoQuery

NextResolve ==
    \/ \E c \in ClassIds, l \in Levels, s \in SubIds : QueryFeaturesForLevel(c, l, s)
    \/ \E c \in ClassIds, l \in Levels, s \in SubIds : QueryFeaturesForRange(c, 1, l, s)
    \/ \E c \in ClassIds, l \in Levels, s \in SubIds : QuerySpellSchools(c, l, s)
    \/ \E c \in ClassIds, l \in Levels, s \in SubIds : QueryMaxSpellTier(c, l, s)
    \/ \E c \in ClassIds : QueryEquipmentProficiencies(c)
    \/ \E c \in ClassIds, s \in SubIds : QueryHasCasting(c, s)
    \/ \E c \in ClassIds : QueryAvailableEquipment(c)

SpecResolve == InitResolve /\ [][NextResolve]_vars

\* --- SpecSettled: the selection sessions of SpecSession together with the
\* queries of the engine, asked for the actor's class, subclass and levels
\* at any point of a session.
QueryNames == <<Chars("progression")>>
QuerySchools == <<<<"F">>, <<"i">>>>
QueryObjectTypes == <<Chars("weapon"), Chars("misc")>>

NextQueries ==
    \/ QueryFeaturesForLevel(ActorInfo.classIdentifier, ActorInfo.level,
                             ActorInfo.subclassIdentifier)
    \/ QueryFeaturesForRange(ActorInfo.classIdentifier, 1, ActorInfo.level,
                             ActorInfo.subclassIdentifier)
    \/ QuerySpellSchools(ActorInfo.classIdentifier, ActorInfo.level,
                         ActorInfo.subclassIdentifier)
    \/ QueryMaxSpellTier(ActorInfo.classIdentifier, ActorInfo.level,
                         ActorInfo.subclassIdentifier)
    \/ QueryEquipmentProficiencies(ActorInfo.classIdentifier)
    \/ QueryClassFeatures(ActorInfo.classIdentifier, 1, ActorInfo.level,
                          ActorInfo.subclassIdentifier)
    \/ QueryFeaturesByName(QueryNames, ActorInfo.classIdentifier)
    \/ QuerySpellsBySchoolAndTier(QuerySchools, MaxLevel, TRUE)
    \/ QueryCountSpells(QuerySchools, MaxLevel, TRUE)
    \/ QueryEquipmentByType(QueryObjectTypes)

NextSettled ==
    \/ NextSession /\ sessionCount' <= MaxSettledSessions
    \/ NextQueries

SpecSettled == InitSession /\ [][NextSettled]_vars

\* --- SpecFeatures: the feature queries over every class-features table of
\* FeatureTables.
Ab == <<"A", "b">>
AbTwo == <<"A", "b", " ", "(", "2", ")">>
Ba == <<"B", "a">>
Fa == <<"F", "a">>
Xx == <<"x", "x">>
OtherSub == "warden"           \* a subclass of the table that is never selected

BaseFeatureMaps == MapsOver({1, MaxLevel}, {<<Ab, AbTwo>>, <<Ba, Xx>>})
SubFeatureMaps == MapsOver({2, MaxLevel}, {<<Fa>>, <<>>})
OtherSubFeatures == [l \in {1, 2} |-> <<Xx>>]
FeatureClassData ==
    {[base |-> b, subclasses |-> [s \in {KnownSub, OtherSub} |->
                                     IF s = KnownSub THEN m ELSE OtherSubFeatures]] :
        b \in BaseFeatureMaps, m \in SubFeatureMaps}
    \cup {[base |-> b] : b \in BaseFeatureMaps}
    \cup {[subclasses |-> [s \in {KnownSub} |-> m]] : m \in SubFeatureMaps}
FeatureTables ==
    {[c \in {KnownClass} |-> d] : d \in FeatureClassData} \cup {EmptyObject}

InitFeatures ==
    /\ \E cf \in FeatureTables : LoadedWith(cf, EmptyObject, EmptyObject, EmptyObject)
    /\ InitializedWith(SampleCatalog)
    /\ actorItems = <<>>
    /\ session = NoSession
    /\ sessionCount = 0
    /\ settings = DefaultSettings
    /\ HooksNotRun
    /\ q = NoQuery

NextFeatures ==
    \/ \E c \in ClassIds, l \in Levels, s \in SubIds : QueryFeaturesForLevel(c, l, s)
    \/ \E c \in ClassIds, from \in Levels, to \in Levels, s \in SubIds :
           QueryFeaturesForRange(c, from, to, s)

SpecFeatures == InitFeatures /\ [][NextFeatures]_vars

\* --- SpecFeatureResolver: resolveRange of the rule-table driven resolvers
\* over the same tables.
NextFeatureResolver ==
    \/ \E c \in ClassIds, from \in Levels, to \in Levels, s \in {NoSubclass, KnownSub} :
           QueryResolveRangeByTable(c, from, to, s)
    \/ \E c \in ClassIds, from \in Levels, to \in Levels, s \in {NoSubclass, KnownSub} :
           QueryResolveRangeExpanding(c, from, to, s)

SpecFeatureResolver == InitFeatures /\ [][NextFeatureResolver]_vars

\* --- SpecBrowse: the queries of the CompendiumBrowser over a catalog whose
\* index order differs from the sorted order, with entries of two classes,
\* two subclasses and a subclass entry of a progression group.
Ra == <<"R", "a">>
Pa == <<"P", "a">>
Sa == <<"S", "a">>

BrowseFeatures ==
    <<Feature("b1", Ab, <<"M", "a", "g", "e">>, NoFolder,
              <<Chars("mage"), Chars("progression")>>, <<1, 3>>, <<>>, FALSE),
      Feature("b2", Ba, <<>>, "fd2",
              <<Chars("arsenal")>>, <<>>, <<2>>, FALSE),
      Feature("b3", Fa, <<"m", "a", "g", "e">>, NoFolder,
              SlugWords(KnownSub), <<2, 3>>, <<>>, TRUE),
      Feature("b4", Ra, <<"m", "a", "g", "e">>, NoFolder,
              SlugWords(AbsentSub), <<1>>, <<>>, TRUE),
      Feature("b5", Pa, <<"m", "a", "g", "e">>, NoFolder,
              <<Chars(AbsentSub), Chars("progression")>>, <<2>>, <<>>, TRUE),
      Feature("b6", Ab, <<"B", "a", "r", "d">>, NoFolder,
              <<Chars("bard"), Chars("progression")>>, <<1>>, <<>>, FALSE),
      Feature("b7", Sa, <<"m", "a", "g", "e">>, NoFolder,
              <<Chars("arsenal")>>, <<1, 2>>, <<>>, FALSE)>>

BrowseSpells ==
    <<[uuid |-> "s1", name |-> <<"F", "b">>, img |-> "icon", school |-> <<"F">>,
       tier |-> 1, selected |-> {}],
      [uuid |-> "s2", name |-> <<"A", "f">>, img |-> "icon", school |-> Ice,
       tier |-> 2, selected |-> {"utilitySpell"}],
      [uuid |-> "s3", name |-> Ab, img |-> "icon", school |-> Fire,
       tier |-> 1, selected |-> {}],
      [uuid |-> "s4", name |-> Ba, img |-> "icon", school |-> Ice,
       tier |-> 0, selected |-> {}],
      [uuid |-> "s5", name |-> <<"A", "a">>, img |-> "icon", school |-> Wind,
       tier |-> 2, selected |-> {}]>>

BrowseCatalog ==
    [features |-> [present |-> TRUE, folders |-> SampleFolders, index |-> BrowseFeatures],
     spells |-> [present |-> TRUE, documents |-> BrowseSpells],
     items |-> [present |-> TRUE, index |-> SampleItems]]

BrowseCatalogs == {BrowseCatalog, [BrowseCatalog EXCEPT !.spells.present = FALSE]}

\* The names, schools and tiers the queries are asked with.
BrowseNames == {Ab, AbTwo, Ba, Xx}
BrowseNameLists ==
    {<<>>} \cup {<<n>> : n \in BrowseNames}
           \cup {<<n, m>> : n \in BrowseNames, m \in BrowseNames}
BrowseSchoolLists ==
    {<<>>, <<<<"F">>, Ice>>, <<Fire, Utility>>, <<Ice, Wind, <<" ", "f">>>>, <<Utility>>}
BrowseTiers == {-1, 0, 1, 2}

InitBrowse ==
    /\ LoadedWith(SampleClassFeatures, SampleSchools, SampleTiers, SampleProficiencies)
    /\ \E catalog \in BrowseCatalogs : InitializedWith(catalog)
    /\ actorItems = <<>>
    /\ session = NoSession
    /\ sessionCount = 0
    /\ settings = DefaultSettings
    /\ HooksNotRun
    /\ q = NoQuery

NextBrowse ==
    \/ \E names \in BrowseNameLists, c \in ClassIds : QueryFeaturesByName(names, c)
    \/ \E schools \in BrowseSchoolLists, t \in BrowseTiers, u \in BOOLEAN :
           QuerySpellsBySchoolAndTier(schools, t, u)
    \/ \E schools \in BrowseSchoolLists, t \in BrowseTiers, u \in BOOLEAN :
           QueryCountSpells(schools, t, u)
    \/ \E c \in ClassIds, from \in Levels, to \in Levels, s \in SubIds :
           QueryClassFeatures(c, from, to, s)

SpecBrowse == InitBrowse /\ [][NextBrowse]_vars

\* --- SpecEquipment: the equipment resolver over every proficiency table of
\* EquipmentTables and a catalog with entries of every object type.
Item(uuid, name, objectType) ==
    [uuid |-> uuid, name |-> name, img |-> "icon", objectType |-> objectType]

EquipmentItems ==
    <<Item("q1", <<"R", "b">>, Chars("weapon")),
      Item("q2", Ba, Chars("weapon")),
      Item("q3", Fa, Chars("weapon")),
      Item("q4", Pa, Chars("weapon")),
      Item("q5", Ab, Chars("armor")),
      Item("q6", Ra, Chars("armor")),
      Item("q7", Sa, Chars("shield")),
      Item("q8", <<"A", "f">>, Chars("consumable")),
      Item("q9", <<"B", "r">>, Chars("misc")),
      Item("q10", Xx, <<"g", "e", "a", "r">>)>>

EquipmentCatalog == [SampleCatalog EXCEPT !.items.index = EquipmentItems]

ArmorTagLists ==
    {<<>>, <<"light">>, <<"shields">>, <<"shield">>, <<"all">>, <<"light", "shields">>}
WeaponTagLists ==
    {<<>>, <<"melee">>, <<"all-martial">>, <<"str">>, <<"all-str">>, <<"dex">>,
     <<"blades">>, <<"melee", "dex">>, <<"blades", "str">>}
EquipmentTables ==
    {[c \in {KnownClass} |-> [armor |-> a, weapons |-> w]] :
        a \in ArmorTagLists, w \in WeaponTagLists} \cup {EmptyObject}

InitEquipment ==
    /\ \E ep \in EquipmentTables :
           LoadedWith(SampleClassFeatures, SampleSchools, SampleTiers, ep)
    /\ InitializedWith(EquipmentCatalog)
    /\ actorItems = <<>>
    /\ session = NoSession
    /\ sessionCount = 0
    /\ settings = DefaultSettings
    /\ HooksNotRun
    /\ q = NoQuery

NextEquipment ==
    \/ \E c \in ClassIds : QueryAvailableEquipment(c)
    \/ \E c \in ClassIds : QueryAvailableEquipmentOfProficiencies(c)
    \/ \E i \in 1..Len(itemIndex), c \in ClassIds : QueryMatchesProficiency(itemIndex[i], c)

SpecEquipment == InitEquipment /\ [][NextEquipment]_vars

\* --- SpecGrant: grantItemsByUuid called directly with lists of catalog
\* identities, an identity no pack holds among them, some of which fail to
\* resolve.
UnknownUuid == "zz"
GrantUuids == {"f1", "s1", "e1", UnknownUuid}
GrantLists ==
    {<<>>} \cup {<<u>> : u \in GrantUuids} \cup {<<u, v>> : u \in GrantUuids, v \in GrantUuids}
ThrowingUuids == SUBSET {"f1", "s1"}

InitGrant ==
    /\ LoadedWith(SampleClassFeatures, SampleSchools, SampleTiers, SampleProficiencies)
    /\ InitializedWith(SampleCatalog)
    /\ actorItems = <<>>
    /\ session = NoSession
    /\ sessionCount = 0
    /\ settings = DefaultSettings
    /\ HooksNotRun
    /\ q = NoQuery

NextGrant ==
    \E uuids \in GrantLists, failed \in ThrowingUuids : GrantItemsByUuid(uuids, failed)

SpecGrant == InitGrant /\ [][NextGrant]_vars

\* --- SpecOwned: the already-owned check and the name lookup over names that
\* differ in letter case, surrounding spaces and apostrophe style.  The
\* character Curly stands for the right single quotation mark U+2019.
Curly == "*"
Hm == <<"A", "'", "b">>
NameVariants ==
    {Hm, <<"a", "'", "B">>, <<" ", "A", "'", "b", " ">>, <<"A", Curly, "b">>}

OwnedFeatures ==
    <<Feature("o1", Hm, <<"m", "a", "g", "e">>, NoFolder,
              <<Chars("mage"), Chars("progression")>>, <<1>>, <<>>, FALSE),
      Feature("o2", Ba, <<"m", "a", "g", "e">>, NoFolder,
              <<Chars("mage"), Chars("progression")>>, <<2>>, <<>>, FALSE)>>

OwnedCatalog == [SampleCatalog EXCEPT !.features.index = OwnedFeatures]

\* The records an actor may own: features under a variant of the name with
\* and without a content source, and a spell and an object of that name and
\* source.
OwnedRecords ==
    {[type |-> "feature", name |-> n, source |-> NoSource] : n \in NameVariants}
    \cup {[type |-> "feature", name |-> Xx, source |-> "o1"],
          [type |-> "spell", name |-> Hm, source |-> "o1"],
          [type |-> "object", name |-> Hm, source |-> "o1"]}
OwnedLists ==
    {<<>>} \cup {<<a>> : a \in OwnedRecords} \cup {<<a, b>> : a \in OwnedRecords, b \in OwnedRecords}
withIds(records) == [i \in 1..Len(records) |-> [id |-> i] @@ records[i]]

\* The features handed to markOwnedFeatures, as findFeaturesByName shapes
\* them.
CheckedFeatures ==
    {[uuid |-> "o1", name |-> n, img |-> "icon", matched |-> TRUE] : n \in NameVariants}
    \cup {[uuid |-> "o2", name |-> Ba, img |-> "icon", matched |-> TRUE],
          [uuid |-> NoUuid, name |-> Xx, img |-> PlaceholderImg, matched |-> FALSE]}
CheckedLists ==
    {<<f>> : f \in CheckedFeatures} \cup {<<f, g>> : f \in CheckedFeatures, g \in CheckedFeatures}

InitOwned ==
    /\ LoadedWith(SampleClassFeatures, SampleSchools, SampleTiers, SampleProficiencies)
    /\ InitializedWith(OwnedCatalog)
    /\ \E records \in OwnedLists : actorItems = withIds(records)
    /\ session = NoSession
    /\ sessionCount = 0
    /\ settings = DefaultSettings
    /\ HooksNotRun
    /\ q = NoQuery

NextOwned ==
    \/ \E features \in CheckedLists : QueryMarkOwnedFeatures(features)
    \/ \E n \in NameVariants \cup {Ba, Xx}, c \in ClassIds : QueryFeaturesByName(<<n>>, c)

SpecOwned == InitOwned /\ [][NextOwned]_vars

\* --- SpecAutoSelect: class feature selectors opened under either value of
\* the autoSelectFeatures setting, for an actor with and without an owned
\* feature.
OwnedFeatureRecord == [id |-> 1, type |-> "feature", name |-> Xx, source |-> "f1"]

InitAutoSelect ==
    /\ LoadedWith(SampleClassFeatures, SampleSchools, SampleTiers, SampleProficiencies)
    /\ InitializedWith(SampleCatalog)
    /\ actorItems \in {<<>>, <<OwnedFeatureRecord>>}
    /\ session = NoSession
    /\ sessionCount = 0
    /\ settings \in {[DefaultSettings EXCEPT !.autoSelectFeatures = value] : value \in BOOLEAN}
    /\ HooksNotRun
    /\ q = NoQuery

NextAutoSelect ==
    \/ \E value \in BOOLEAN : ChangeSetting(value)
    \/ OpenSelector("feature")
    \/ \E group \in GroupIds : FilterGroup(group)
    \/ \E uuid \in Uuids : ToggleFeature(uuid)
    \/ SelectAll
    \/ DeselectAll
    \/ Cancel

SpecAutoSelect == InitAutoSelect /\ [][NextAutoSelect]_vars

\* --- SpecSelectors: the windows of SpecSession with the filters of the spell
\* and equipment selectors.
FilterSchools == {Fire, Ice, Wind, Utility}
FilterTiers == {Null} \cup {Some(tier) : tier \in 1..MaxLevel}
FilterCategories == {SampleItems[i].objectType : i \in 1..Len(SampleItems)}

NextSelectors ==
    \/ \E kind \in SelectorKinds : OpenSelector(kind)
    \/ \E group \in GroupIds : FilterGroup(group)
    \/ \E uuid \in Uuids : ToggleFeature(uuid)
    \/ SelectAll
    \/ DeselectAll
    \/ \E uuid \in Uuids : ToggleSpell(uuid)
    \/ \E uuid \in Uuids : ToggleEquipment(uuid)
    \/ ConfirmStart
    \/ \E k \in 1..Len(session.confirms) :
           \E failed \in SUBSET Range(session.confirms[k].uuids) :
               GrantCreate(k, failed)
    \/ \E k \in 1..Len(session.confirms) : ConfirmFinish(k)
    \/ Cancel
    \/ \E school \in FilterSchools : FilterSchool(school)
    \/ \E tier \in FilterTiers : FilterTier(tier)
    \/ \E category \in FilterCategories : FilterCategory(category)

SpecSelectors == InitSession /\ [][NextSelectors]_vars

\* --- SpecToggle: feature and spell windows in which the selection changes
\* by toggles only, under any filter, with grants landing in between.
NextToggle ==
    \/ \E kind \in {"feature", "spell"} : OpenSelector(kind)
    \/ \E group \in GroupIds : FilterGroup(group)
    \/ \E uuid \in Uuids : ToggleFeature(uuid)
    \/ \E school \in FilterSchools : FilterSchool(school)
    \/ \E tier \in FilterTiers : FilterTier(tier)
    \/ \E uuid \in Uuids : ToggleSpell(uuid)
    \/ ConfirmStart
    \/ \E k \in 1..Len(session.confirms) :
           \E failed \in SUBSET Range(session.confirms[k].uuids) :
               GrantCreate(k, failed)
    \/ \E k \in 1..Len(session.confirms) : ConfirmFinish(k)
    \/ Cancel

SpecToggle == InitSession /\ [][NextToggle]_vars

\* --- SpecNames: findFeaturesByName over a catalog that holds a name under
\* two classes, a name with a numeric suffix next to its base name, and an
\* entry classified by its folder.
NameFeatures ==
    <<Feature("n1", Ab, <<"B", "a", "r", "d">>, NoFolder,
              <<Chars("bard"), Chars("progression")>>, <<1>>, <<>>, FALSE),
      Feature("n2", <<"a", "b", " ">>, <<"M", "a", "g", "e">>, NoFolder,
              <<Chars("mage"), Chars("progression")>>, <<1>>, <<>>, FALSE),
      Feature("n3", AbTwo, <<"B", "a", "r", "d">>, NoFolder,
              <<Chars("bard"), Chars("progression")>>, <<2>>, <<>>, FALSE),
      Feature("n4", Ba, <<>>, "fd2",
              <<Chars("arsenal")>>, <<>>, <<2>>, FALSE),
      Feature("n5", Ba, <<"B", "a", "r", "d">>, NoFolder,
              <<Chars("arsenal")>>, <<>>, <<2>>, FALSE)>>

NameCatalog ==
    [features |-> [present |-> TRUE, folders |-> SampleFolders, index |-> NameFeatures],
     spells |-> [present |-> TRUE, documents |-> SampleSpells],
     items |-> [present |-> TRUE, index |-> SampleItems]]

BaTwo == <<"B", "a", "(", "2", ")">>
AbThree == <<" ", "a", "B", " ", " ", "(", "3", ")">>
RequestedNames == {Ab, AbTwo, AbThree, Ba, BaTwo, Fa, Xx}
RequestedNameLists ==
    {<<n>> : n \in RequestedNames} \cup {<<n, m>> : n \in RequestedNames, m \in RequestedNames}

InitNames ==
    /\ LoadedWith(SampleClassFeatures, SampleSchools, SampleTiers, SampleProficiencies)
    /\ InitializedWith(NameCatalog)
    /\ actorItems = <<>>
    /\ session = NoSession
    /\ sessionCount = 0
    /\ settings = DefaultSettings
    /\ HooksNotRun
    /\ q = NoQuery

NextNames ==
    \E names \in RequestedNameLists, c \in ClassIds : QueryFeaturesByName(names, c)

SpecNames == InitNames /\ [][NextNames]_vars

\* --- SpecFolders: initialize() over feature packs whose three folders form
\* every hierarchy in which a parent is a folder of lower id, no folder, or a
\* folder the pack does not hold (acyclic by construction).
MissingFolder == "gone"
FolderHierarchies ==
    {[id \in {"fd1", "fd2", "fd3"} |->
         IF id = "fd1" THEN [name |-> <<"M", "a", "g", "e", " ">>, folder |-> p1]
         ELSE IF id = "fd2" THEN [name |-> <<"A", "r", "s">>, folder |-> p2]
         ELSE [name |-> <<"B", "A", "R", "D">>, folder |-> p3]] :
        p1 \in {NoFolder, MissingFolder},
        p2 \in {NoFolder, "fd1", MissingFolder},
        p3 \in {NoFolder, "fd1", "fd2", MissingFolder}}

FolderFeatures ==
    <<Feature("g1", Ab, <<"M", "a", "g", "e">>, "fd3",
              <<Chars("mage"), Chars("progression")>>, <<1>>, <<>>, FALSE),
      Feature("g2", Ba, <<>>, "fd3", <<Chars("arsenal")>>, <<>>, <<2>>, FALSE),
      Feature("g3", Fa, <<>>, "fd2", <<Chars("arsenal")>>, <<2>>, <<>>, FALSE),
      Feature("g4", Xx, <<>>, NoFolder, <<Chars("arsenal")>>, <<2>>, <<>>, FALSE),
      Feature("g5", Ra, <<>>, MissingFolder, <<Chars("arsenal")>>, <<2>>, <<>>, FALSE)>>

FolderCatalogs ==
    {[features |-> [present |-> TRUE, folders |-> folders, index |-> FolderFeatures],
      spells |-> [present |-> FALSE, documents |-> <<>>],
      items |-> [present |-> FALSE, index |-> <<>>]] : folders \in FolderHierarchies}

InitFolders ==
    /\ NotLoaded("four", SampleClassFeatures, SampleSchools, SampleTiers,
                 SampleProficiencies)
    /\ \E catalog \in FolderCatalogs : NotInitialized(catalog)
    /\ actorItems = <<>>
    /\ session = NoSession
    /\ sessionCount = 0
    /\ settings = DefaultSettings
    /\ HooksNotRun
    /\ q = NoQuery

NextFolders ==
    \/ InitializeCall
    \/ \E i \in 1..Len(initCalls) : IndexFeaturesResume(i)
    \/ \E i \in 1..Len(initCalls) : InitializeFinish(i)

SpecFolders == InitFolders /\ [][NextFolders]_vars

\* --- SpecHooks: a client from before its ready hook on: the hook loads and
\* indexes, and the access points and the item hooks run at any time. The
\* fetches of the load all end the same way.
ActorTypes == {"character", "npc"}
ItemTypes == {"class", "feature"}
UserIds == {LocalUser, "other"}
LevelChanges == {Null} \cup {Some(level) : level \in 1..MaxLevel}

InitHooks ==
    /\ \E variant \in {"three", "four"} :
           NotLoaded(variant, SampleClassFeatures, SampleSchools, SampleTiers,
                     SampleProficiencies)
    /\ NotInitialized(SampleCatalog)
    /\ actorItems = <<>>
    /\ session = NoSession
    /\ sessionCount = 0
    /\ settings = DefaultSettings
    /\ orchestrator = FALSE
    /\ readyHook = "notRun"
    /\ actor \in {[type |-> type, classLevel |-> level] : type \in ActorTypes, level \in {0, 1}}
    /\ panels = <<>>
    /\ timers = 0
    /\ q = NoQuery

NextHooks ==
    \/ ReadyHookCall
    \/ \E outcome \in FetchOutcomes : LoadResume([f \in FileNames |-> outcome])
    \/ \E i \in 1..Len(initCalls) : IndexFeaturesResume(i)
    \/ \E i \in 1..Len(initCalls) : IndexSpellsResume(i)
    \/ \E i \in 1..Len(initCalls) : IndexItemsResume(i)
    \/ \E i \in 1..Len(initCalls) : InitializeFinish(i)
    \/ ReadyHookResume
    \/ \E found \in BOOLEAN : KeybindingDown(found)
    \/ \E found \in BOOLEAN : SceneButtonClick(found)
    \/ SheetHeaderAction
    \/ DirectoryMenuCallback
    \/ \E itemType \in ItemTypes, changes \in LevelChanges, userId \in UserIds :
           UpdateItem(itemType, changes, userId)
    \/ \E itemType \in ItemTypes, userId \in UserIds : CreateItem(itemType, userId)
    \/ TimerFires
    \/ \E value \in BOOLEAN : ChangeAutoOpenSetting(value)

SpecHooks == InitHooks /\ [][NextHooks]_vars

\* --- SpecFeatureRange: the two catalog-driven feature resolvers over a
\* catalog with progression features, subclass features and two selectable
\* groups, one of them with a two-word id.
ArmorMisc == <<Chars("armor"), Chars("misc")>>      \* the group id 'armor-misc'

RangeFeatures ==
    BrowseFeatures
    \o <<Feature("b8", Xx, <<"m", "a", "g", "e">>, NoFolder, ArmorMisc, <<3>>, <<>>, FALSE),
          Feature("b9", Pa, <<"m", "a", "g", "e">>, NoFolder, ArmorMisc, <<2, 3>>, <<>>, FALSE)>>

RangeCatalog == [BrowseCatalog EXCEPT !.features.index = RangeFeatures]

InitFeatureRange ==
    /\ LoadedWith(SampleClassFeatures, SampleSchools, SampleTiers, SampleProficiencies)
    /\ \E catalog \in {BrowseCatalog, RangeCatalog} : InitializedWith(catalog)
    /\ actorItems = <<>>
    /\ session = NoSession
    /\ sessionCount = 0
    /\ settings = DefaultSettings
    /\ HooksNotRun
    /\ q = NoQuery

NextFeatureRange ==
    \/ \E c \in ClassIds, from \in Levels, to \in Levels, s \in SubIds :
           QueryResolveRange(c, from, to, s)
    \/ \E c \in ClassIds, from \in Levels, to \in Levels, s \in SubIds :
           QueryResolveRangePerLevel(c, from, to, s)

SpecFeatureRange == InitFeatureRange /\ [][NextFeatureRange]_vars

\* =================================================================== claims
RECURSIVE IsSubsequence(_, _)
IsSubsequence(a, b) ==
    IF a = <<>> THEN TRUE
    ELSE IF b = <<>> THEN FALSE
    ELSE IF Head(a) = Head(b) THEN IsSubsequence(Tail(a), Tail(b))
    ELSE IsSubsequence(a, Tail(b))

\* The largest tier a tier map holds at its levels <= level, 0 when none.
MaxTierUpTo(tierMap, level) ==
    LET S == {tierMap[k] : k \in {x \in DOMAIN tierMap : x >= 1 /\ x <= level}}
    IN IF S = {} THEN 0 ELSE CHOOSE x \in S : \A y \in S : y <= x

\* C7: for every class, subclass and level L >= 2 (levels past the last
\* table level add nothing, so L ranges to MaxLevel + 1) the schools granted at
\* level L include every school granted at level L-1, and the choices of
\* level L contain, in order, every choice of level L-1.
C7_SchoolsNeverRevoked ==
    \A c \in ClassIds, s \in SubIds, l \in 2..(MaxLevel + 1) :
        LET hi == getSpellSchools(c, l, s)
            lo == getSpellSchools(c, l - 1, s)
        IN /\ Range(lo.granted) \subseteq Range(hi.granted)
           /\ IsSubsequence(lo.choices, hi.choices)

\* A query that returns the schools and choices of the level below and more.
C7_Witness ==
    /\ q.op = "getSpellSchools"
    /\ q.args[2] >= 2
    /\ LET lo == getSpellSchools(q.args[1], q.args[2] - 1, q.args[3])
       IN /\ Len(lo.granted) > 0
          /\ Len(q.result.granted) > Len(lo.granted)
          /\ Len(lo.choices) > 0
          /\ Len(q.result.choices) > Len(lo.choices)

\* C8: for every class and subclass, getMaxSpellTier never decreases as the
\* level grows (from 1 to one past the last table level).
C8_MaxTierMonotone ==
    \A c \in ClassIds, s \in SubIds, l \in 2..(MaxLevel + 1) :
        getMaxSpellTier(c, l - 1, s) <= getMaxSpellTier(c, l, s)

\* A level-2 query on a base table whose level-2 entry is lower than its
\* level-1 entry: the result stays at the level-1 tier.
C8_Witness ==
    /\ q.op = "getMaxSpellTier"
    /\ q.args[2] = 2
    /\ q.args[3] = NoSubclass
    /\ q.args[1] \in DOMAIN spellTiers
    /\ "base" \in DOMAIN spellTiers[q.args[1]]
    /\ LET base == spellTiers[q.args[1]].base
       IN /\ {1, 2} \subseteq DOMAIN base
          /\ base[2] < base[1]
          /\ q.result = base[1]

\* C9: with a tier table for the given subclass the result is the largest
\* tier of that table at levels <= level (0 when none) and the base table is
\* ignored; otherwise it is the largest tier of the base table at levels
\* <= level (0 when none); it is -1 exactly when the class has neither.
C9_MaxTierValue ==
    \A c \in ClassIds, s \in SubIds, l \in 1..(MaxLevel + 1) :
        LET r == getMaxSpellTier(c, l, s)
            known == spellTiers # NullTable /\ c \in DOMAIN spellTiers
            hasSub == /\ known
                      /\ s # NoSubclass
                      /\ "subclasses" \in DOMAIN spellTiers[c]
                      /\ s \in DOMAIN spellTiers[c].subclasses
            hasBase == known /\ "base" \in DOMAIN spellTiers[c]
        IN /\ hasSub => r = MaxTierUpTo(spellTiers[c].subclasses[s], l)
           /\ (~hasSub /\ hasBase) => r = MaxTierUpTo(spellTiers[c].base, l)
           /\ (r = -1) <=> (~hasSub /\ ~hasBase)

\* A query with a subclass table whose result is below what the base table
\* alone would give.
C9_Witness ==
    /\ q.op = "getMaxSpellTier"
    /\ HasSubTiers(q.args[1], q.args[3])
    /\ HasBaseTiers(q.args[1])
    /\ q.result < MaxTierUpTo(spellTiers[q.args[1]].base, q.args[2])
    /\ q.result > 0


\* The table a rule-table file is loaded into.
TableOf(filename) ==
    CASE filename = "classFeatures" -> classFeatures
      [] filename = "spellSchools" -> spellSchools
      [] filename = "spellTiers" -> spellTiers
      [] filename = "equipmentProficiencies" -> equipmentProficiencies

\* C3: whenever a load() has resumed from its fetches, whatever their
\* outcomes, it has completed, loaded is true, the table of every file whose
\* fetch failed is the empty object and every other table holds its file's
\* content.
C3_LoadIsolatesFailures ==
    lastLoad.result # "none" =>
        /\ lastLoad.result = "completed"
        /\ loaded
        /\ \A f \in FileNames :
               TableOf(f) = IF lastLoad.outcomes[f] = "ok" THEN files[f] ELSE EmptyObject

\* C4: a load() call made when loaded is true starts no fetch, suspends
\* nothing and leaves the four tables and the loaded flag unchanged.
C4_LoadIdempotent ==
    [][(loaded /\ loadCallCount' = loadCallCount + 1) =>
           /\ fetchCount' = fetchCount
           /\ loadPending' = loadPending
           /\ UNCHANGED <<ruleTables, loaded>>]_vars

\* Two load() calls were made, the second after the first completed: only
\* the fetches of the first were started.
C4_Witness ==
    /\ loaded
    /\ loadCallCount = 2
    /\ loadPending = 0
    /\ fetchCount = Cardinality(FileNames)

\* The number of entries with the given uuid in a sequence of entries.
Occurrences(seq, uuid) == Cardinality({i \in 1..Len(seq) : seq[i].uuid = uuid})

\* The number of entries with the given uuid in all the lists of a map.
RECURSIVE SumOver(_, _, _)
SumOver(map, keys, uuid) ==
    IF keys = {} THEN 0
    ELSE LET k == CHOOSE x \in keys : TRUE
         IN Occurrences(map[k], uuid) + SumOver(map, keys \ {k}, uuid)

MapOccurrences(map, uuid) == SumOver(map, DOMAIN map, uuid)

PackEntries(pack, field) == IF pack.present THEN pack[field] ELSE <<>>

\* C5: once at least two initialize() calls were made and all have finished,
\* every entry of the feature, spell and item packs is in its index exactly
\* once.
C5_IndicesHoldEachEntryOnce ==
    (initialized /\ initCalls = <<>> /\ initCallCount >= 2) =>
        /\ \A i \in 1..Len(PackEntries(packs.features, "index")) :
               /\ MapOccurrences(featureIndex, packs.features.index[i].uuid) = 1
               /\ MapOccurrences(featureByClassIndex, packs.features.index[i].uuid) = 1
        /\ \A i \in 1..Len(PackEntries(packs.spells, "documents")) :
               Occurrences(spellIndex, packs.spells.documents[i].uuid) = 1
        /\ \A i \in 1..Len(PackEntries(packs.items, "index")) :
               Occurrences(itemIndex, packs.items.index[i].uuid) = 1

\* C1: after any sequence of selection sessions on one actor the actor holds
\* at most one owned record per content-source identity (a confirm never
\* grants an identity the actor already owns).
C1_AtMostOneRecordPerSource ==
    \A i, j \in 1..Len(actorItems) :
        (i # j) => (actorItems[i].source # actorItems[j].source)

\* C2: within one selection session grantItemsByUuid is invoked at most once,
\* whatever the interleaving of confirm events.
C2_GrantAtMostOncePerSession ==
    session.grantCalls <= 1

\* What the query recorded in call returns in the current state.
resultNow(call) ==
    LET a == call.args
    IN CASE call.op = "getFeaturesForLevel" -> getFeaturesForLevel(a[1], a[2], a[3])
         [] call.op = "getFeaturesForRange" -> getFeaturesForRange(a[1], a[2], a[3], a[4])
         [] call.op = "getSpellSchools" -> getSpellSchools(a[1], a[2], a[3])
         [] call.op = "getMaxSpellTier" -> getMaxSpellTier(a[1], a[2], a[3])
         [] call.op = "getEquipmentProficiencies" -> getEquipmentProficiencies(a[1])
         [] call.op = "getClassFeatures" -> getClassFeatures(a[1], a[2], a[3], a[4])
         [] call.op = "findFeaturesByName" -> findFeaturesByName(a[1], a[2])
         [] call.op = "findSpellsBySchoolAndTier" ->
                findSpellsBySchoolAndTier(a[1], a[2], a[3])
         [] call.op = "countSpellsBySchoolAndTier" ->
                countSpellsBySchoolAndTier(a[1], a[2], a[3])
         [] call.op = "findEquipmentByType" -> findEquipmentByType(a[1])

\* C6: once load() and initialize() have completed, no query and no selector
\* or grant action changes a rule table or a content index, and the query
\* answered last, repeated with the same arguments at any later point,
\* returns the result it returned.
C6_TablesAndIndicesAreReadOnly ==
    /\ [][(loaded /\ initialized) => UNCHANGED <<ruleTables, indices>>]_vars
    /\ []((loaded /\ initialized /\ q.op # NoQuery.op) => resultNow(q) = q.result)

\* A query is answered after a confirm has granted records to the actor.
C6_Witness ==
    /\ loaded /\ initialized
    /\ q.op = "findEquipmentByType"
    /\ Len(q.result) > 0
    /\ Len(actorItems) > 0
    /\ session.closed

\* The table a query reads.
tableRead(op) ==
    CASE op \in {"getFeaturesForLevel", "getFeaturesForRange"} -> classFeatures
      [] op \in {"getSpellSchools", "hasCasting"} -> spellSchools
      [] op = "getMaxSpellTier" -> spellTiers
      [] op \in {"getEquipmentProficiencies", "findAvailableEquipment"} ->
             equipmentProficiencies

ClassAbsent(table, classIdentifier) == ~HasClass(table, classIdentifier)

SubclassAbsent(table, classIdentifier, subclassIdentifier) ==
    /\ Truthy(subclassIdentifier)
    /\ \/ ClassAbsent(table, classIdentifier)
       \/ "subclasses" \notin DOMAIN table[classIdentifier]
       \/ subclassIdentifier \notin DOMAIN table[classIdentifier].subclasses

\* The result that means "no entitlement", query by query.
IsNoEntitlement(op, result) ==
    CASE op = "getFeaturesForLevel" -> result = <<>>
      [] op = "getFeaturesForRange" -> result = <<>>
      [] op = "getSpellSchools" -> result = [granted |-> <<>>, choices |-> <<>>]
      [] op = "getMaxSpellTier" -> result = -1
      [] op = "getEquipmentProficiencies" -> result = [armor |-> <<>>, weapons |-> <<>>]
      [] op = "hasCasting" -> result = FALSE
      [] op = "findAvailableEquipment" ->
             \A i \in 1..Len(result) :
                 result[i].normalizedType \in {Chars("consumable"), Chars("misc")}

subclassOf(call) ==
    CASE call.op \in {"getFeaturesForLevel", "getSpellSchools", "getMaxSpellTier"} ->
             call.args[3]
      [] call.op = "getFeaturesForRange" -> call.args[4]
      [] call.op = "hasCasting" -> call.args[2]
      [] OTHER -> NoSubclass

\* The same query asked without a subclass.
resultWithoutSubclass(call) ==
    LET a == call.args
    IN CASE call.op = "getFeaturesForLevel" -> getFeaturesForLevel(a[1], a[2], NoSubclass)
         [] call.op = "getFeaturesForRange" ->
                getFeaturesForRange(a[1], a[2], a[3], NoSubclass)
         [] call.op = "getSpellSchools" -> getSpellSchools(a[1], a[2], NoSubclass)
         [] call.op = "getMaxSpellTier" -> getMaxSpellTier(a[1], a[2], NoSubclass)
         [] call.op = "hasCasting" -> hasCasting(a[1], NoSubclass)
         [] OTHER -> call.result

\* C10, as stated: for a class or a subclass identifier absent from the rule
\* tables every query returns its no-entitlement value.
C10_AbsentClassOrSubclassGivesNoEntitlement ==
    (q.op # NoQuery.op)
    => ((\/ ClassAbsent(tableRead(q.op), q.args[1])
         \/ SubclassAbsent(tableRead(q.op), q.args[1], subclassOf(q)))
        => IsNoEntitlement(q.op, q.result))

\* C10, amended: for a class identifier absent from the table a query reads
\* the query returns its no-entitlement value, whatever the subclass; a
\* subclass identifier absent from that table contributes nothing, the
\* query returns what it returns without a subclass.
C10_AbsentClassGivesNoEntitlement ==
    (q.op # NoQuery.op)
    => /\ ClassAbsent(tableRead(q.op), q.args[1])
            => IsNoEntitlement(q.op, q.result)
       /\ SubclassAbsent(tableRead(q.op), q.args[1], subclassOf(q))
            => q.result = resultWithoutSubclass(q)

\* The equipment of a class absent from the proficiency table is asked for
\* while the item index holds a weapon: the result holds entries, none of
\* them the weapon.
C10_Witness ==
    /\ q.op = "findAvailableEquipment"
    /\ ClassAbsent(equipmentProficiencies, q.args[1])
    /\ Len(q.result) > 0
    /\ \E i \in 1..Len(itemIndex) : itemIndex[i].normalizedType = Chars("weapon")

\* The level object of a class's base table, and of one of its subclasses;
\* an empty object when a key on the way is missing.
baseMapOf(table, classIdentifier) ==
    IF HasClass(table, classIdentifier) /\ "base" \in DOMAIN table[classIdentifier]
    THEN table[classIdentifier].base ELSE EmptyObject

subMapOf(table, classIdentifier, subclassIdentifier) ==
    IF /\ Truthy(subclassIdentifier)
       /\ HasClass(table, classIdentifier)
       /\ "subclasses" \in DOMAIN table[classIdentifier]
       /\ subclassIdentifier \in DOMAIN table[classIdentifier].subclasses
    THEN table[classIdentifier].subclasses[subclassIdentifier] ELSE EmptyObject

namesAt(levelMap, level) ==
    IF level \in DOMAIN levelMap THEN levelMap[level] ELSE <<>>

\* C11: getFeaturesForLevel returns the base-table names of exactly that
\* level followed by the names the given subclass's table has at exactly
\* that level; a missing class, level or subclass key contributes nothing.
C11_FeaturesForLevelIsBaseThenSubclass ==
    (q.op = "getFeaturesForLevel")
    => q.result = namesAt(baseMapOf(classFeatures, q.args[1]), q.args[2])
                  \o namesAt(subMapOf(classFeatures, q.args[1], q.args[3]), q.args[2])

\* Base and subclass names are returned together while the table holds names
\* of another level and of another subclass.
C11_Witness ==
    /\ q.op = "getFeaturesForLevel"
    /\ q.args = <<KnownClass, MaxLevel, KnownSub>>
    /\ q.result = <<Ba, Xx, Fa>>
    /\ 1 \in DOMAIN baseMapOf(classFeatures, KnownClass)
    /\ 2 \in DOMAIN subMapOf(classFeatures, KnownClass, OtherSub)

\* C12: getFeaturesForRange returns the levels of [from, to] whose
\* getFeaturesForLevel is non-empty, in ascending order, each with that list;
\* the map is empty when from > to.
C12_FeaturesForRangeKeys ==
    (q.op = "getFeaturesForRange")
    => LET fromLevel == q.args[2]
           toLevel == q.args[3]
           nonEmpty == {l \in fromLevel..toLevel :
                           getFeaturesForLevel(q.args[1], l, q.args[4]) # <<>>}
       IN /\ {q.result[i].level : i \in 1..Len(q.result)} = nonEmpty
          /\ Len(q.result) = Cardinality(nonEmpty)
          /\ \A i \in 1..Len(q.result) :
                 /\ q.result[i].features =
                        getFeaturesForLevel(q.args[1], q.result[i].level, q.args[4])
                 /\ \A j \in 1..Len(q.result) :
                        (i < j) => (q.result[i].level < q.result[j].level)
          /\ (fromLevel > toLevel) => (q.result = <<>>)

\* A range whose middle level has no features: the map holds the first and
\* the last level only.
C12_Witness ==
    /\ q.op = "getFeaturesForRange"
    /\ q.args[2] = 1 /\ q.args[3] = MaxLevel
    /\ Len(q.result) = 2
    /\ q.result[1].level = 1 /\ q.result[2].level = MaxLevel

\* The (level, name) pairs of a getFeaturesForRange result, level by level
\* and in table order within a level.
RECURSIVE namesByLevel(_)
namesByLevel(featuresByLevel) ==
    IF featuresByLevel = <<>> THEN <<>>
    ELSE [i \in 1..Len(Head(featuresByLevel).features) |->
             [level |-> Head(featuresByLevel).level,
              name |-> Head(featuresByLevel).features[i]]]
         \o namesByLevel(Tail(featuresByLevel))

HasEntryNamed(name) ==
    name \in DOMAIN featureIndex /\ featureIndex[name] # <<>>

\* The catalog has an entry under the normalised name or, when it has none,
\* under that name without its trailing "(n)".
HasEntryNamedOrBaseNamed(name) ==
    \/ HasEntryNamed(normalizeString(name))
    \/ HasEntryNamed(stripNumericSuffix(normalizeString(name)))

IsResolveRange(call) == call.op \in {"resolveRangeByTable", "resolveRangeExpanding"}

\* C13, as stated: resolveRange returns one record per feature name per level
\* of getFeaturesForRange, in that order, each with its level and with
\* matched true exactly when the catalog has an entry with the normalised
\* name.
C13_OneRecordPerNameMatchedByName ==
    IsResolveRange(q)
    => LET names == namesByLevel(getFeaturesForRange(q.args[1], q.args[2], q.args[3],
                                                     q.args[4]))
       IN /\ Len(q.result) = Len(names)
          /\ \A i \in 1..Len(names) :
                 /\ q.result[i].name = names[i].name
                 /\ q.result[i].level = names[i].level
                 /\ q.result[i].matched = HasEntryNamed(normalizeString(names[i].name))

\* The names of namesByLevel with every name of a selectable group replaced
\* by the options of the group.
RECURSIVE optionsByLevel(_, _)
optionsByLevel(classIdentifier, names) ==
    IF names = <<>> THEN <<>>
    ELSE LET head == Head(names)
             baseName == stripSuffixPattern(head.name)
             options ==
                 IF getSelectableOptions(classIdentifier, head.name) # Null
                 THEN getSelectableOptions(classIdentifier, head.name)[1]
                 ELSE IF getSelectableOptions(classIdentifier, baseName) # Null
                 THEN getSelectableOptions(classIdentifier, baseName)[1]
                 ELSE <<head.name>>
         IN [i \in 1..Len(options) |-> [level |-> head.level, name |-> options[i]]]
            \o optionsByLevel(classIdentifier, Tail(names))

\* C13, amended: the table-driven resolveRange returns one record per feature
\* name per level of getFeaturesForRange, in level order and in table order
\* within a level, each with its level; matched is true exactly when the
\* catalog has an entry under the normalised name or, failing that, under
\* the name without its trailing parenthesised number.  The variant that
\* expands selectable groups returns these records with every name of a
\* group replaced by one record per option of the group.
C13_OneRecordPerNameMatchedByNameOrBaseName ==
    IsResolveRange(q)
    => LET plain == namesByLevel(getFeaturesForRange(q.args[1], q.args[2], q.args[3],
                                                     q.args[4]))
           names == IF q.op = "resolveRangeByTable" THEN plain
                    ELSE optionsByLevel(q.args[1], plain)
       IN /\ Len(q.result) = Len(names)
          /\ \A i \in 1..Len(names) :
                 /\ q.result[i].name = names[i].name
                 /\ q.result[i].level = names[i].level
                 /\ q.result[i].matched = HasEntryNamedOrBaseNamed(names[i].name)

\* The table-driven resolveRange resolves two levels: a name the catalog
\* holds, a name it holds without the "(2)", and a name it does not hold.
C13_Witness ==
    /\ q.op = "resolveRangeByTable"
    /\ Len(q.result) >= 3
    /\ \E i, j, k \in 1..Len(q.result) :
           /\ q.result[i].name = Ab /\ q.result[i].matched
           /\ q.result[j].name = AbTwo /\ q.result[j].matched
           /\ q.result[k].level > q.result[i].level
    /\ \E i \in 1..Len(q.result) : ~q.result[i].matched

NoSchools == [granted |-> <<>>, choices |-> <<>>]

\* C14: hasCasting is true exactly when getSpellSchools at level 20 has a
\* granted school or a choice, and when it is false getSpellSchools has
\* empty granted and empty choices at every level from 1 to 20.
C14_HasCastingIsAccessAtTheCap ==
    (q.op = "hasCasting")
    => LET atCap == getSpellSchools(q.args[1], LevelCap, q.args[2])
       IN /\ q.result = (atCap.granted # <<>> \/ atCap.choices # <<>>)
          /\ (~q.result)
                => \A l \in 1..LevelCap :
                       getSpellSchools(q.args[1], l, q.args[2]) = NoSchools

\* hasCasting answers false for a class whose base table has entries (none
\* of them an array of schools).
C14_Witness ==
    /\ q.op = "hasCasting"
    /\ HasClass(spellSchools, q.args[1])
    /\ ~q.result
    /\ "base" \in DOMAIN spellSchools[q.args[1]]
    /\ DOMAIN spellSchools[q.args[1]].base # {}

\* The tags the arrays of a level object list at numeric levels <= level.
listedTags(levelMap, level) ==
    UNION {Range(levelMap[k].items) :
              k \in {n \in DOMAIN levelMap :
                        n # NonNumericKey /\ n <= level /\ levelMap[n].kind = "list"}}

withoutMarker(tag) == IF tag # <<>> /\ Head(tag) = "+" THEN Tail(tag) ELSE tag

\* C15: getSpellSchools(...).granted is exactly the set of school tags,
\* marker prefix removed, that the base table and the given subclass's table
\* list at table levels <= level; no returned school keeps a marker.
C15_GrantedIsListedTagsWithoutMarker ==
    (q.op = "getSpellSchools")
    => LET listed == listedTags(baseMapOf(spellSchools, q.args[1]), q.args[2])
                     \cup listedTags(subMapOf(spellSchools, q.args[1], q.args[3]),
                                     q.args[2])
           granted == q.result.granted
       IN /\ Range(granted) = {withoutMarker(t) : t \in listed}
          /\ Len(granted) = Cardinality(Range(granted))
          /\ \A i \in 1..Len(granted) : Head(granted[i]) # "+"

\* A marked tag of the base table is returned without its marker while the
\* table lists another school for a subclass that is not the selected one.
C15_Witness ==
    /\ q.op = "getSpellSchools"
    /\ q.args[3] # KnownSub
    /\ PlusIce \in listedTags(baseMapOf(spellSchools, q.args[1]), q.args[2])
    /\ PlusWind \in listedTags(subMapOf(spellSchools, q.args[1], KnownSub), q.args[2])
    /\ Ice \in Range(q.result.granted)
    /\ Wind \notin Range(q.result.granted)

\* The feature pack holds an entry whose normalised name is the normalised
\* requested name or that name without its trailing "(n)".
catalogHasCandidate(name) ==
    /\ packs.features.present
    /\ \E i \in 1..Len(packs.features.index) :
           normalizeString(packs.features.index[i].name)
               \in {normalizeString(name), stripNumericSuffix(normalizeString(name))}

\* C16: findFeaturesByName returns a result (it never throws) with exactly
\* one record per input name, in input order, each carrying the requested
\* name; a name with no candidate in the catalog gets uuid null, matched false
\* and the placeholder image.
C16_OneRecordPerRequestedName ==
    q.op = "findFeaturesByName"
    => LET names == q.args[1]
       IN /\ DOMAIN q.result = 1..Len(names)
          /\ \A i \in 1..Len(names) :
                 /\ q.result[i].name = names[i]
                 /\ ~catalogHasCandidate(names[i])
                    => /\ q.result[i].uuid = NoUuid
                       /\ q.result[i].matched = FALSE
                       /\ q.result[i].img = PlaceholderImg

\* Two names are asked for: the catalog holds no candidate for the first and
\* holds the second.
C16_Witness ==
    /\ q.op = "findFeaturesByName"
    /\ q.args[1] = <<Xx, AbTwo>>
    /\ ~catalogHasCandidate(Xx)
    /\ q.result[1].uuid = NoUuid /\ ~q.result[1].matched
    /\ q.result[2].matched /\ q.result[2].name = AbTwo

\* The spells of the spell pack (none when the pack is missing).
packSpells == IF packs.spells.present THEN packs.spells.documents ELSE <<>>

\* The spells a request is entitled to: school among the requested schools
\* (normalised), tier at most maxTier, utility-flagged ones only with
\* includeUtility.
requestedSpells(schools, maxTier, includeUtility) ==
    {packSpells[i].uuid : i \in
        {j \in 1..Len(packSpells) :
            /\ normalizeString(packSpells[j].school)
                   \in {normalizeString(schools[k]) : k \in 1..Len(schools)}
            /\ packSpells[j].tier <= maxTier
            /\ ("utilitySpell" \in packSpells[j].selected => includeUtility)}}

\* C17: findSpellsBySchoolAndTier returns exactly the indexed spells whose
\* normalised school is in the requested set and whose tier is at most
\* maxTier, without the utility-flagged spells unless includeUtility is true,
\* each once; with maxTier = -1 the result is empty.
C17_SpellsOfRequestedSchoolsUpToTier ==
    q.op = "findSpellsBySchoolAndTier"
    => /\ {q.result[i].uuid : i \in 1..Len(q.result)}
              = requestedSpells(q.args[1], q.args[2], q.args[3])
       /\ Len(q.result) = Cardinality(requestedSpells(q.args[1], q.args[2], q.args[3]))
       /\ q.args[2] = -1 => q.result = <<>>

\* Two schools are requested up to tier 1 without utility access: the result
\* leaves out the utility-flagged spell of a requested school and the spell
\* of another school, and holds the other three.
C17_Witness ==
    /\ q.op = "findSpellsBySchoolAndTier"
    /\ q.args = <<<<<<"F">>, Ice>>, 1, FALSE>>
    /\ \E i \in 1..Len(spellIndex) : spellIndex[i].isUtility /\ spellIndex[i].school = Ice
    /\ {q.result[i].uuid : i \in 1..Len(q.result)} = {"s1", "s3", "s4"}

\* A list of spells is in order: tiers ascending, names ascending within a
\* tier.
ByTierThenName(spells) ==
    \A i \in 1..(Len(spells) - 1) :
        \/ spells[i].tier < spells[i + 1].tier
        \/ /\ spells[i].tier = spells[i + 1].tier
           /\ localeCompare(spells[i].name, spells[i + 1].name) <= 0

\* C18: the result of findSpellsBySchoolAndTier is sorted by tier ascending
\* then name ascending, and countSpellsBySchoolAndTier returns the length of
\* the list findSpellsBySchoolAndTier returns for the same arguments.
C18_SortedAndCountIsLength ==
    /\ q.op = "findSpellsBySchoolAndTier"
       => /\ ByTierThenName(q.result)
          /\ countSpellsBySchoolAndTier(q.args[1], q.args[2], q.args[3]) = Len(q.result)
    /\ q.op = "countSpellsBySchoolAndTier"
       => q.result = Len(findSpellsBySchoolAndTier(q.args[1], q.args[2], q.args[3]))

\* The count is 3 without utility access while a fourth spell of the
\* requested schools and tiers is utility-flagged, and the list of the same
\* arguments is not in index order.
C18_Witness ==
    /\ q.op = "countSpellsBySchoolAndTier"
    /\ q.args = <<<<<<"F">>, Ice>>, 2, FALSE>>
    /\ q.result = 3
    /\ countSpellsBySchoolAndTier(q.args[1], q.args[2], TRUE) = 4
    /\ LET found == findSpellsBySchoolAndTier(q.args[1], q.args[2], q.args[3])
       IN /\ [i \in 1..Len(found) |-> found[i].uuid] = <<"s4", "s3", "s1">>
          /\ [i \in 1..Len(spellIndex) |-> spellIndex[i].uuid]
                 = <<"s1", "s2", "s3", "s4", "s5">>

\* The indexed entries of a class.
entriesOfClass(classIdentifier) ==
    LET normalizedClass == normalizeString(Chars(classIdentifier))
    IN IF normalizedClass \in DOMAIN featureByClassIndex
       THEN featureByClassIndex[normalizedClass] ELSE <<>>

grantLevels(f, fromLevel, toLevel) ==
    {l \in Range(f.gainedAtLevels) : fromLevel <= l /\ l <= toLevel}

\* The number of progression records of an entry at a level.
recordsOf(progression, f, level) ==
    Cardinality({i \in 1..Len(progression) :
                    progression[i].uuid = f.uuid /\ progression[i].level = level})

\* The entry is among the options of some selectable group.
InSelectableGroups(groups, f) ==
    \E g \in 1..Len(groups) :
        \E i \in 1..Len(groups[g].features) : groups[g].features[i].uuid = f.uuid

selectedGroup(subclassIdentifier, f) ==
    Truthy(subclassIdentifier) /\ f.group = SlugWords(subclassIdentifier)

\* What C19 and its amendment share: every entry in the given set has one
\* progression record per level of its level set in range, every progression
\* record has a level of its entry's level set in range, and an entry with
\* no level in range is in neither part of the result.
ProgressionHolds(InProgression(_, _), call) ==
    LET entries == entriesOfClass(call.args[1])
        fromLevel == call.args[2]
        toLevel == call.args[3]
        progression == call.result.progression
    IN /\ \A i \in 1..Len(entries) :
              /\ InProgression(call.args[4], entries[i])
                 => \A l \in grantLevels(entries[i], fromLevel, toLevel) :
                        recordsOf(progression, entries[i], l) = 1
              /\ grantLevels(entries[i], fromLevel, toLevel) = {}
                 => /\ \A k \in 1..Len(progression) : progression[k].uuid # entries[i].uuid
                    /\ ~InSelectableGroups(call.result.selectableGroups, entries[i])
       /\ \A k \in 1..Len(progression) :
              /\ fromLevel <= progression[k].level /\ progression[k].level <= toLevel
              /\ \E i \in 1..Len(entries) :
                     /\ entries[i].uuid = progression[k].uuid
                     /\ progression[k].level \in Range(entries[i].gainedAtLevels)

\* group ends in "-progression", or subclass flag set and group equal to the
\* selected subclass
progressionOrSelectedSubclass(subclassIdentifier, f) ==
    \/ isProgressionGroup(f.group)
    \/ f.subclass /\ selectedGroup(subclassIdentifier, f)

\* the same, a subclass-flagged entry of another group excepted
progressionUnlessOtherSubclass(subclassIdentifier, f) ==
    \/ ~f.subclass /\ isProgressionGroup(f.group)
    \/ f.subclass /\ selectedGroup(subclassIdentifier, f)

\* C19, as stated: getClassFeatures puts into progression, once per level of
\* its level set within [from, to], every entry of the class whose group ends
\* in "-progression" or whose subclass flag is set with the group of the
\* selected subclass; every progression record has a level of [from, to] that
\* is in its entry's level set; an entry with no level in range is nowhere.
C19_ProgressionOrSelectedSubclass ==
    q.op = "getClassFeatures" => ProgressionHolds(progressionOrSelectedSubclass, q)

\* C19, amended: the same for every entry that is not subclass-flagged and
\* whose group ends in "-progression", or that is subclass-flagged with the
\* group of the selected subclass (a subclass-flagged entry of another group
\* is dropped even when its group ends in "-progression").
C19_ProgressionUnlessOtherSubclass ==
    q.op = "getClassFeatures" => ProgressionHolds(progressionUnlessOtherSubclass, q)

\* Levels 2..3 with the subclass selected: the base progression entry is
\* recorded at level 3 only, the subclass entry at levels 2 and 3, and the
\* entry granted at level 1 is in neither part.
C19_Witness ==
    /\ q.op = "getClassFeatures"
    /\ q.args = <<KnownClass, 2, 3, KnownSub>>
    /\ [i \in 1..Len(q.result.progression) |->
           <<q.result.progression[i].uuid, q.result.progression[i].level>>]
         = <<<<"b1", 3>>, <<"b3", 2>>, <<"b3", 3>>>>
    /\ \E i \in 1..Len(entriesOfClass(KnownClass)) :
           /\ entriesOfClass(KnownClass)[i].uuid = "b4"
           /\ grantLevels(entriesOfClass(KnownClass)[i], 2, 3) = {}

\* C20: in the result of getClassFeatures a subclass-flagged entry whose
\* group is not the selected subclass (every subclass-flagged entry when no
\* subclass is selected) is neither in progression nor in selectableGroups.
C20_OtherSubclassEntriesAreDropped ==
    q.op = "getClassFeatures"
    => \A i \in 1..Len(entriesOfClass(q.args[1])) :
           LET f == entriesOfClass(q.args[1])[i]
           IN f.subclass /\ ~selectedGroup(q.args[4], f)
              => /\ \A k \in 1..Len(q.result.progression) :
                        q.result.progression[k].uuid # f.uuid
                 /\ ~InSelectableGroups(q.result.selectableGroups, f)

\* Levels 1..3 with the other subclass selected: the class has subclass
\* entries of two other groups with levels in range, one of them of a
\* "-progression" group, and the result holds the selected subclass's entry
\* and none of those.
C20_Witness ==
    /\ q.op = "getClassFeatures"
    /\ q.args = <<KnownClass, 1, 3, AbsentSub>>
    /\ {f.uuid : f \in {e \in Range(entriesOfClass(KnownClass)) :
                           /\ e.subclass /\ ~selectedGroup(AbsentSub, e)
                           /\ grantLevels(e, 1, 3) # {}}}
         = {"b3", "b5"}
    /\ {q.result.progression[k].uuid : k \in 1..Len(q.result.progression)} = {"b1", "b4"}
    /\ Len(q.result.selectableGroups) = 1

\* The places of an entry among the options of the selectable groups.
placesOf(groups, f) ==
    UNION {{<<g, i>> : i \in {j \in 1..Len(groups[g].features) :
                                 groups[g].features[j].uuid = f.uuid}} :
           g \in 1..Len(groups)}

\* C21: in the result of getClassFeatures every entry of the class with a
\* level in range that is neither of a "-progression" group nor
\* subclass-flagged is in selectableGroups exactly once, under its group id,
\* however many of its levels are in range; no entry is in both progression
\* and selectableGroups.
C21_SelectableOncePerEntry ==
    q.op = "getClassFeatures"
    => LET entries == entriesOfClass(q.args[1])
           groups == q.result.selectableGroups
       IN /\ \A i \in 1..Len(entries) :
                 /\ grantLevels(entries[i], q.args[2], q.args[3]) # {}
                 /\ ~isProgressionGroup(entries[i].group)
                 /\ ~entries[i].subclass
                 => /\ Cardinality(placesOf(groups, entries[i])) = 1
                    /\ \A pl \in placesOf(groups, entries[i]) :
                           groups[pl[1]].groupId = entries[i].group
          /\ \A k \in 1..Len(q.result.progression), g \in 1..Len(groups) :
                 \A i \in 1..Len(groups[g].features) :
                     groups[g].features[i].uuid # q.result.progression[k].uuid

\* Levels 1..2: an option granted at both levels and an option granted at
\* one of them are each once in their group, beside a progression record.
C21_Witness ==
    /\ q.op = "getClassFeatures"
    /\ q.args = <<KnownClass, 1, 2, NoSubclass>>
    /\ Len(q.result.selectableGroups) = 1
    /\ q.result.selectableGroups[1].groupId = <<Chars("arsenal")>>
    /\ [i \in 1..Len(q.result.selectableGroups[1].features) |->
           q.result.selectableGroups[1].features[i].uuid] = <<"b2", "b7">>
    /\ q.result.selectableGroups[1].features[2].gainedAtLevels = <<1, 2>>
    /\ Len(q.result.progression) = 1

\* The object types the proficiencies of a class imply: armor with any armor
\* tag, shield with the armor tag "shields" or "all", weapon with any weapon
\* tag, and always consumable and misc.
impliedObjectTypes(proficiencies) ==
    (IF proficiencies.armor # <<>> THEN {Chars("armor")} ELSE {})
    \cup (IF {"shields", "all"} \cap Range(proficiencies.armor) # {}
          THEN {Chars("shield")} ELSE {})
    \cup (IF proficiencies.weapons # <<>> THEN {Chars("weapon")} ELSE {})
    \cup {Chars("consumable"), Chars("misc")}

\* The entries of the item pack of the given object types.
packItemsOfTypes(types) ==
    {packs.items.index[i].uuid : i \in
        {j \in 1..Len(packs.items.index) :
            normalizeString(packs.items.index[j].objectType) \in types}}

IsFindAvailableEquipment(call) ==
    call.op \in {"findAvailableEquipment", "findAvailableEquipmentOfProficiencies"}

\* C22: the result of findAvailableEquipment(class) holds, once each, every
\* indexed entry whose object type is among the types the proficiencies of
\* the class imply (armor, shield, weapon as above, and always consumable and
\* misc) and no entry of another type.
C22_AvailableEquipmentIsOfImpliedTypes ==
    IsFindAvailableEquipment(q)
    => LET types == impliedObjectTypes(
                        IF HasClass(equipmentProficiencies, q.args[1])
                        THEN equipmentProficiencies[q.args[1]]
                        ELSE [armor |-> <<>>, weapons |-> <<>>])
       IN /\ {q.result[i].uuid : i \in 1..Len(q.result)} = packItemsOfTypes(types)
          /\ Len(q.result) = Cardinality(packItemsOfTypes(types))

\* The armor tags of a class in the proficiency table (none when absent).
armorTagsOf(classIdentifier) ==
    IF HasClass(equipmentProficiencies, classIdentifier)
    THEN Range(equipmentProficiencies[classIdentifier].armor) ELSE {}

\* C23: for a class with the armor tag "all", matchesProficiency admits every
\* entry of object type armor, whatever its armor category (none included),
\* and every entry of object type shield, and the result of
\* findAvailableEquipment holds the entries of both types.
C23_AllArmorAdmitsArmorAndShields ==
    /\ q.op = "matchesProficiency" /\ "all" \in armorTagsOf(q.args[2])
       /\ q.args[1].objectType \in {Chars("armor"), Chars("shield")}
       => q.result = TRUE
    /\ q.op = "findAvailableEquipment" /\ "all" \in armorTagsOf(q.args[1])
       => packItemsOfTypes({Chars("armor"), Chars("shield")})
              \subseteq {q.result[i].uuid : i \in 1..Len(q.result)}

\* The class has the armor tag "all" and no other, and an armor entry
\* without an armor category is admitted.
C23_Witness ==
    /\ q.op = "matchesProficiency"
    /\ q.args[2] = KnownClass
    /\ HasClass(equipmentProficiencies, KnownClass)
    /\ equipmentProficiencies[KnownClass].armor = <<"all">>
    /\ q.args[1].objectType = Chars("armor")
    /\ attributesOf(q.args[1]).armorType = NoArmorType
    /\ q.result = TRUE

\* The weapon tags of a class in the proficiency table (none when absent).
weaponTagsOf(classIdentifier) ==
    IF HasClass(equipmentProficiencies, classIdentifier)
    THEN Range(equipmentProficiencies[classIdentifier].weapons) ELSE {}

\* One weapon tag admits a weapon.
tagAdmits(tag, item) ==
    \/ tag = "all-martial"
    \/ tag \in {"str", "all-str"} /\ EquipmentAttributes[item.uuid].weaponAttr = "strength"
    \/ tag = "dex" /\ EquipmentAttributes[item.uuid].weaponAttr = "dexterity"
    \/ tag = "melee" /\ ~EquipmentAttributes[item.uuid].isRanged
    \/ /\ tag \notin {"all-martial", "str", "all-str", "dex", "melee"}
       /\ \E category \in DOMAIN WeaponCategories :
              category = tag /\ item.name \in WeaponCategories[category]

\* C24: matchesProficiency admits a weapon exactly when at least one weapon
\* tag of the class admits it ("all-martial" any weapon, "str" and "all-str"
\* a strength weapon, "dex" a dexterity weapon, "melee" a weapon that is not
\* ranged, any other tag a weapon named in that category's list); a weapon no
\* tag admits, and any weapon against an empty tag list, is rejected.
C24_WeaponAdmittedByAnyTag ==
    q.op = "matchesProficiency" /\ q.args[1].objectType = Chars("weapon")
    => q.result = (\E tag \in weaponTagsOf(q.args[2]) : tagAdmits(tag, q.args[1]))

\* A ranged dexterity weapon against the weapon tags ["melee"] is rejected.
C24_Witness ==
    /\ q.op = "matchesProficiency"
    /\ q.args[1].objectType = Chars("weapon")
    /\ EquipmentAttributes[q.args[1].uuid].isRanged
    /\ EquipmentAttributes[q.args[1].uuid].weaponAttr = "dexterity"
    /\ HasClass(equipmentProficiencies, q.args[2])
    /\ equipmentProficiencies[q.args[2]].weapons = <<"melee">>
    /\ q.result = FALSE

IsGrant == q.op = "grantItemsByUuid"

\* The identities of a list that resolve: held by a pack and not throwing.
resolving(uuids, failed) ==
    SelectSeq(uuids, LAMBDA u : u \notin failed
                                /\ \E i \in 1..Len(catalogDocuments) :
                                       catalogDocuments[i].uuid = u)

\* C25: grantItemsByUuid with an empty identity list, or with a list in which
\* no identity resolves, makes no createEmbeddedDocuments call, returns an
\* empty list and leaves the actor's owned records unchanged.
C25_NothingToGrantIsNoOp ==
    IsGrant /\ resolving(q.args[2], q.args[3]) = <<>>
    => /\ q.result.createCalls = 0
       /\ q.result.returned = <<>>
       /\ actorItems = q.args[1]

\* Two identities are granted to an actor that owns a record: one throws and
\* the other is in no pack, and the actor's records are as before.
C25_Witness ==
    /\ IsGrant
    /\ q.args[2] = <<"f1", UnknownUuid>>
    /\ q.args[3] = {"f1"}
    /\ Len(q.args[1]) = 1
    /\ actorItems = q.args[1]
    /\ q.result.createCalls = 0

\* The owned records a grant added to the actor's records.
addedBy(call) == SubSeq(actorItems, Len(call.args[1]) + 1, Len(actorItems))

\* C26: in grantItemsByUuid an identity that fails to resolve (fromUuid throws
\* inside getFullDocument, or yields nothing) is skipped, the call returns,
\* and every other identity of the batch is granted, in input order, through
\* exactly one createEmbeddedDocuments call.
C26_UnresolvedIdentitiesAreSkipped ==
    IsGrant
    => LET granted == resolving(q.args[2], q.args[3])
       IN /\ SubSeq(actorItems, 1, Len(q.args[1])) = q.args[1]
          /\ [i \in 1..Len(addedBy(q)) |-> addedBy(q)[i].source] = granted
          /\ q.result.returned = addedBy(q)
          /\ granted # <<>> => q.result.createCalls = 1

\* The first identity of a batch of two throws and the second is granted by
\* one call.
C26_Witness ==
    /\ IsGrant
    /\ q.args[2] = <<"s1", "e1">>
    /\ q.args[3] = {"s1"}
    /\ q.result.createCalls = 1
    /\ Len(addedBy(q)) = 1
    /\ addedBy(q)[1].source = "e1"

\* The number of records of a list that come from a source.
fromSource(items, uuid) == Cardinality({i \in 1..Len(items) : items[i].source = uuid})

\* C27: every owned record grantItemsByUuid creates carries the catalog
\* identity it was requested with as its content source and a local identity
\* no other owned record has; an identity granted again adds a further record
\* of the same source, and actorHasItemFromSource is true of every granted
\* identity after the call.
C27_GrantedRecordsCarryTheirSource ==
    IsGrant
    => /\ \A i \in 1..Len(addedBy(q)) :
              /\ addedBy(q)[i].source \in Range(resolving(q.args[2], q.args[3]))
              /\ \A j \in 1..Len(actorItems) :
                     actorItems[j].id = addedBy(q)[i].id => j = Len(q.args[1]) + i
       /\ \A u \in Range(resolving(q.args[2], q.args[3])) :
              /\ fromSource(actorItems, u)
                     = fromSource(q.args[1], u)
                       + fromSource([i \in 1..Len(q.args[2]) |-> [source |-> q.args[2][i]]], u)
              /\ actorHasItemFromSource(actorItems, u)

\* An identity the actor already holds a record of, after another identity's
\* record, is granted again: the actor has two records of that source, with
\* different local identities.
C27_Witness ==
    /\ IsGrant
    /\ q.args[2] = <<"e1">>
    /\ Len(q.args[1]) = 2
    /\ q.args[1][1].source = "f1"
    /\ actorHasItemFromSource(q.args[1], "e1")
    /\ fromSource(actorItems, "e1") = 2
    /\ actorItems[2].id # actorItems[3].id

\* The normalisation of names: lower case, trim, curly apostrophes folded to
\* straight ones.
folded(name) ==
    LET lowered == trim(toLowerCase(name))
    IN [i \in 1..Len(lowered) |-> IF lowered[i] = Curly THEN "'" ELSE lowered[i]]

\* The actor owns a record of type feature under the feature's normalised
\* name or with the feature's identity as its content source.
ownsFeature(items, f) ==
    \E i \in 1..Len(items) :
        /\ items[i].type = "feature"
        /\ \/ folded(items[i].name) = folded(f.name)
           \/ f.uuid # NoUuid /\ items[i].source # NoSource /\ items[i].source = f.uuid

\* C28: markOwnedFeatures flags a feature alreadyOwned exactly when the actor
\* has an owned record of type feature whose normalised name is the feature's
\* normalised name or whose content source is the feature's identity (owned
\* records of other types never flag a feature), and it keeps the order of
\* the features and their other fields.
C28_OwnedByNormalisedNameOrSource ==
    q.op = "markOwnedFeatures"
    => LET features == q.args[1]
       IN /\ DOMAIN q.result = 1..Len(features)
          /\ \A i \in 1..Len(features) :
                 /\ q.result[i].alreadyOwned = ownsFeature(actorItems, features[i])
                 /\ \A field \in DOMAIN features[i] :
                        q.result[i][field] = features[i][field]

\* The names of the model that differ from a name only in letter case,
\* surrounding spaces or apostrophe style.
sameNames(name) == {n \in NameVariants \cup {Ba, Xx} : folded(n) = folded(name)}

\* C29: two names that differ only in letter case, surrounding spaces or
\* apostrophe style are treated as equal by findFeaturesByName (they find the
\* same entry) and by the already-owned check of markOwnedFeatures (a feature
\* is flagged under one of them exactly when it is under the other).
C29_NamesAreEqualUpToNormalisation ==
    /\ q.op = "findFeaturesByName"
       => \A n \in sameNames(q.args[1][1]) :
              findFeaturesByName(<<n>>, q.args[2])[1].uuid = q.result[1].uuid
    /\ q.op = "markOwnedFeatures"
       => \A i \in 1..Len(q.args[1]) : \A n \in sameNames(q.args[1][i].name) :
              markOwnedFeatures(actorItems, <<[q.args[1][i] EXCEPT !.name = n]>>)[1].alreadyOwned
                  = q.result[i].alreadyOwned

\* The features a first render pre-selects: matched, not already owned, and
\* not an option of a selectable group.
newFeatures(sel) ==
    {sel.entries[i].uuid : i \in
        {j \in 1..Len(sel.entries) :
            /\ sel.entries[j].matched /\ ~sel.entries[j].alreadyOwned
            /\ ~TruthyLabel(sel.entries[j].selectableGroup)}}

\* C30: the autoSelectFeatures setting decides the selection of the first
\* render of the class feature selector: enabled, the matched features that
\* are not already owned are selected; disabled, nothing is selected.
C30_SettingDecidesPreselection ==
    [][(sessionCount' = sessionCount + 1 /\ session'.kind = "feature")
           => Range(session'.selectedUuids)
                  = IF settings.autoSelectFeatures THEN newFeatures(session') ELSE {}]_vars

\* C31: an updateItem event opens the selector panel only when the new class
\* level is greater than the level before, the local user made the change,
\* the owner is a character, autoOpenOnLevelUp is enabled and the
\* orchestrator exists; the panel opened covers the new level.
C31_PanelOpensOnLevelUpOnly ==
    [][(actor'.classLevel # actor.classLevel /\ actor.classLevel > 0 /\ panels' # panels)
           => /\ actor'.classLevel > actor.classLevel
              /\ actor.type = "character"
              /\ settings.autoOpenOnLevelUp /\ orchestrator
              /\ Len(panels') = Len(panels) + 1
              /\ panels'[Len(panels')].fromLevel <= actor'.classLevel
              /\ panels'[Len(panels')].level = actor'.classLevel]_vars

\* The window is the same one before and after the step.
SameWindow == sessionCount' = sessionCount /\ session'.kind = session.kind

\* The step is a toggle, a filter, a select-all or a deselect-all (the
\* selection or a filter of the open window changes and the window stays
\* open), or a cancel (the window closes with its selection kept).
IsSelectionStep ==
    /\ SameWindow /\ ~session.closed
    /\ session'.confirms = session.confirms
    /\ \/ session'.selectedUuids # session.selectedUuids
       \/ session'.activeGroup # session.activeGroup
       \/ session'.activeSchool # session.activeSchool
       \/ session'.activeTier # session.activeTier
       \/ session'.activeCategory # session.activeCategory
       \/ session'.closed

\* C32: in every selector a toggle, filter, select-all, deselect-all or
\* cancel leaves the owned records unchanged; the owned records change only
\* inside a confirm that copied a non-empty selection, and no grant is
\* called, nor the window closed by a confirm, for an empty selection.
C32_OwnedRecordsChangeOnlyInConfirm ==
    [][/\ IsSelectionStep => actorItems' = actorItems
       /\ actorItems' # actorItems
              => \E k \in 1..Len(session.confirms) :
                     /\ session.confirms[k].stage = "granting"
                     /\ session.confirms[k].uuids # <<>>
                     /\ session'.confirms[k].stage = "created"
       /\ (SameWindow /\ session'.grantCalls # session.grantCalls)
              => /\ session.selectedUuids # <<>>
                 /\ session'.confirms[Len(session'.confirms)].uuids = session.selectedUuids
       /\ (SameWindow /\ Len(session'.confirms) < Len(session.confirms))
              => session.grantCalls > 0]_vars

\* A confirm has granted records of a window in which a filter was set.
C32_Witness ==
    /\ actorItems # <<>>
    /\ session.closed
    /\ session.confirms = <<>>
    /\ session.kind = "spell"
    /\ session.activeTier # Null

\* The item was flagged already-owned by the last render of the window.
flaggedOwned(sel, uuid) ==
    IF sel.kind = "feature"
    THEN \E j \in 1..Len(sel.entries) :
             sel.entries[j].uuid = uuid /\ sel.entries[j].alreadyOwned
    ELSE \/ uuid \in sel.ownedKeys.sources
         \/ \E j \in 1..Len(sel.entries) :
                /\ sel.entries[j].uuid = uuid
                /\ trim(toLowerCase(sel.entries[j].name)) \in sel.ownedKeys.names

\* C33: in the feature and spell selectors a toggle never changes the
\* selection for an item flagged already-owned at the last render, and a
\* toggle of any other item flips its membership and nothing else (so a
\* second toggle of it restores the selection).
C33_ToggleFlipsUnownedItemsOnly ==
    [][(SameWindow /\ ~session.closed /\ ~session'.closed
           /\ session'.selectedUuids # session.selectedUuids)
          => \E uuid \in Range(uuidsOf(shownEntries(session))) :
                 /\ ~flaggedOwned(session, uuid)
                 /\ Range(session'.selectedUuids)
                        = IF uuid \in Range(session.selectedUuids)
                          THEN Range(session.selectedUuids) \ {uuid}
                          ELSE Range(session.selectedUuids) \cup {uuid}
                 /\ Range(toggle(session'.selectedUuids, uuid))
                        = Range(session.selectedUuids)]_vars

\* A window shows an item flagged already-owned, and a toggle has selected an
\* option of a selectable group, which no render selects.
C33_Witness ==
    /\ IsOpen /\ session.kind = "feature"
    /\ \E j \in 1..Len(session.entries) : session.entries[j].alreadyOwned
    /\ \E j \in 1..Len(session.entries) :
           /\ TruthyLabel(session.entries[j].selectableGroup)
           /\ session.entries[j].uuid \in Range(session.selectedUuids)

\* The features of the window that are matched, not already owned and in no
\* selectable group.
ungroupedNewFeatures(sel) ==
    {sel.entries[i].uuid : i \in
        {j \in 1..Len(sel.entries) :
            /\ sel.entries[j].matched /\ ~sel.entries[j].alreadyOwned
            /\ ~TruthyId(sel.entries[j].selectableGroupId)}}

afterSelectAll(sel) == Range(addAll(sel.selectedUuids, uuidsOf(selectAllTargets(sel))))

\* C35: after select-all in the class feature selector, every feature shown
\* under the active filter (none, the class-features filter or a group) that
\* is matched and not already owned is selected, and every feature select-all
\* added is one of those shown.
C35_SelectAllSelectsWhatIsShown ==
    (IsOpen /\ session.kind = "feature")
        => LET shown == shownEntries(session)
           IN /\ \A i \in 1..Len(shown) :
                     (shown[i].matched /\ ~shown[i].alreadyOwned)
                         => shown[i].uuid \in afterSelectAll(session)
              /\ afterSelectAll(session) \ Range(session.selectedUuids)
                     \subseteq Range(uuidsOf(shown))

\* C36: the orchestrator exists only when load() and initialize() have both
\* completed; no access point (keybinding, scene button, sheet header
\* action, directory menu, level-up and class-creation hooks) opens a panel
\* before that, and a panel is opened (ensureReady has resolved) only in a
\* state where loaded and initialized are both true.
C36_NoPanelBeforeReady ==
    /\ [](orchestrator => (loaded /\ initialized /\ readyHook = "done"))
    /\ [][(panels' # panels \/ timers' > timers)
              => (orchestrator /\ loaded /\ initialized)]_vars

\* The ready hook has finished after a fetch that failed, and an access
\* point has opened a panel.
C36_Witness ==
    /\ orchestrator
    /\ lastLoad.result = "completed" /\ \E f \in FileNames : lastLoad.outcomes[f] # "ok"
    /\ panels # <<>>

\* The entries of the feature pack, in catalog order, whose normalised name
\* is the key.
entriesNamed(key) ==
    SelectSeq(packs.features.index, LAMBDA e : normalizeString(e.name) = key)

\* The candidate list of a requested name: the entries under its full
\* normalised name, and those under the name without its numeric suffix only
\* when there is none.
candidateList(name) ==
    LET key == normalizeString(name)
    IN IF entriesNamed(key) # <<>> THEN entriesNamed(key)
       ELSE entriesNamed(stripNumericSuffix(key))

\* The class an entry is indexed under, normalised.
indexedClass(e) ==
    featureDataOf(e, buildFolderClassMap(packs.features.folders)).normalizedClass

\* C37: findFeaturesByName resolves a name to the first candidate whose class
\* is the requested class when the candidate list holds one, and to the
\* first candidate in catalog order otherwise; the candidates of the
\* suffix-stripped name are used only when the full name has none.
C37_ClassMatchThenFirstCandidate ==
    q.op = "findFeaturesByName"
    => \A i \in 1..Len(q.args[1]) :
           LET candidates == candidateList(q.args[1][i])
               ofClass == SelectSeq(candidates,
                              LAMBDA e : indexedClass(e) = normalizeString(Chars(q.args[2])))
           IN IF candidates = <<>> THEN ~q.result[i].matched
              ELSE /\ q.result[i].matched
                   /\ q.result[i].uuid = IF ofClass # <<>> THEN ofClass[1].uuid
                                         ELSE candidates[1].uuid

\* One call resolves a name to the second candidate, which is of the
\* requested class, and a suffixed name to its own entry of another class
\* although the base name has an entry of the requested class.
C37_Witness ==
    /\ q.op = "findFeaturesByName"
    /\ q.args = <<<<Ab, AbTwo>>, KnownClass>>
    /\ q.result[1].uuid = "n2"
    /\ q.result[2].uuid = "n3"

\* The folders from id upwards, as far as the parents exist (at most fuel of
\* them).
RECURSIVE folderChain(_, _, _)
folderChain(folders, id, fuel) ==
    IF fuel = 0 \/ id \notin DOMAIN folders THEN <<>>
    ELSE <<id>> \o folderChain(folders, folders[id].folder, fuel - 1)

\* The class an entry is to be indexed under: its own, or the normalised
\* name of the topmost ancestor of its folder, or none when the entry has no
\* folder, the pack does not hold it, or the chain of parents is broken.
inheritedClass(e) ==
    LET folders == packs.features.folders
        chain == folderChain(folders, e.folder, Cardinality(DOMAIN folders))
    IN IF e.class # <<>> THEN e.class
       ELSE IF chain = <<>> THEN <<>>
       ELSE IF folders[chain[Len(chain)]].folder # NoFolder THEN <<>>
       ELSE normalizeString(folders[chain[Len(chain)]].name)

\* The records of the by-name index with this uuid.
indexedRecords(uuid) ==
    UNION {{featureIndex[key][i] : i \in {j \in 1..Len(featureIndex[key]) :
                                             featureIndex[key][j].uuid = uuid}} :
           key \in DOMAIN featureIndex}

\* C38: an indexed feature with a direct class attribute keeps it, and one
\* without is indexed under the normalised name of the topmost ancestor of
\* its folder, or under no class when the chain of parents is broken; on
\* every acyclic hierarchy the walk of #buildFolderClassMap ends within as
\* many steps as there are folders.
C38_ClassIsOwnOrOfTopmostFolder ==
    /\ \A id \in DOMAIN packs.features.folders :
           folderWalkSteps(packs.features.folders, id)
               <= Cardinality(DOMAIN packs.features.folders)
    /\ \A i \in 1..Len(packs.features.index) :
           LET e == packs.features.index[i]
           IN /\ initialized => indexedRecords(e.uuid) # {}
              /\ \A r \in indexedRecords(e.uuid) :
                     /\ r.class = inheritedClass(e)
                     /\ r.normalizedClass \in DOMAIN featureByClassIndex
                     /\ \E k \in 1..Len(featureByClassIndex[r.normalizedClass]) :
                            featureByClassIndex[r.normalizedClass][k] = r

\* The pack is indexed: the entry with a class of its own in a folder of
\* another class kept its class, one entry took the name of the root two
\* folders up, and one whose folder chain is broken has no class.
C38_Witness ==
    /\ initialized
    /\ packs.features.folders["fd3"].folder = "fd2"
    /\ packs.features.folders["fd2"].folder = "fd1"
    /\ packs.features.folders["fd1"].folder = NoFolder
    /\ \E r \in indexedRecords("g1") : r.class = <<"M", "a", "g", "e">>
    /\ \E r \in indexedRecords("g2") : r.class = Chars("mage")
    /\ \E r \in indexedRecords("g5") : r.class = <<>>

\* C39: for every proficiency record and every entry of type armor, shield
\* or weapon, an entry matchesProficiency admits is of an object type that
\* findAvailableEquipment queries for the same proficiencies.
C39_GateAdmitsOnlyQueriedTypes ==
    (/\ q.op = "matchesProficiency"
     /\ q.args[1].objectType \in {Chars("armor"), Chars("shield"), Chars("weapon")}
     /\ q.result)
        => q.args[1].objectType
               \in Range(availableObjectTypes(getEquipmentProficiencies(q.args[2])))

\* A shield is admitted by the armor tag 'all', which is no tag of shields.
C39_Witness ==
    /\ q.op = "matchesProficiency"
    /\ q.args[1].objectType = Chars("shield")
    /\ q.result
    /\ HasClass(equipmentProficiencies, q.args[2])
    /\ "all" \in Range(equipmentProficiencies[q.args[2]].armor)
    /\ "shields" \notin Range(equipmentProficiencies[q.args[2]].armor)

\* The group id with each word capitalised and the words joined by spaces.
RECURSIVE joinWords(_)
joinWords(words) ==
    IF Len(words) = 1 THEN words[1]
    ELSE words[1] \o <<" ">> \o joinWords(Tail(words))

titleCased(groupId) ==
    joinWords([k \in 1..Len(groupId) |->
                  <<UpperChar(groupId[k][1])>> \o Tail(groupId[k])])

\* C40: the answer of resolveRange of a catalog-driven feature resolver is
\* the progression records of getClassFeatures in their order, each with
\* matched true, no group label and its level within [fromLevel, toLevel],
\* followed by every option of every selectable group exactly once, with
\* level null, the id of its group, and the label that is the group id with
\* the first letter of each word in upper case and the words joined by
\* spaces.
C40_ResolveRangeListsEveryOptionOnce ==
    q.op \in {"resolveRange", "resolveRangePerLevel"} =>
        LET found == getClassFeatures(q.args[1], q.args[2], q.args[3], q.args[4])
            count == Len(found.progression)
            result == q.result
            options == {i \in 1..Len(result) : i > count}
        IN /\ Len(result) >= count
           /\ \A i \in 1..count :
                  /\ result[i].uuid = found.progression[i].uuid
                  /\ result[i].level = found.progression[i].level
                  /\ result[i].level \in q.args[2]..q.args[3]
                  /\ result[i].matched
                  /\ result[i].selectableGroup = Null
           /\ \A i \in options :
                  /\ result[i].level = NullLevel
                  /\ result[i].selectableGroupId # Null
                  /\ result[i].selectableGroup
                         = Some(titleCased(result[i].selectableGroupId[1]))
           /\ \A g \in 1..Len(found.selectableGroups) :
                  \A k \in 1..Len(found.selectableGroups[g].features) :
                      Cardinality({i \in options :
                          /\ result[i].uuid = found.selectableGroups[g].features[k].uuid
                          /\ result[i].selectableGroupId
                                 = Some(found.selectableGroups[g].groupId)}) = 1
           /\ \A i \in options :
                  \E g \in 1..Len(found.selectableGroups) :
                      \E k \in 1..Len(found.selectableGroups[g].features) :
                          /\ result[i].uuid = found.selectableGroups[g].features[k].uuid
                          /\ result[i].selectableGroupId
                                 = Some(found.selectableGroups[g].groupId)

====
